---- MODULE Spec2Model ----
(***************************************************************************)
(* A model of the Communication Analysis Tool: the message ingestion       *)
(* pipeline of modules/report_generator.py (format detection, the chat-log,*)
(* multi-email and single-email parsers, the per-file loop of the report   *)
(* entry points) and the trained spam model of modules/spam_detector.py.   *)
(*                                                                         *)
(* Text.  A Python str is modelled as a sequence of symbols.  A symbol is  *)
(* either a single character ("\n", " ", ":", ",", "-", "!") or a lexeme   *)
(* that the code only ever handles as a whole: a word, a date ("1/1/25"),  *)
(* a time of day ("10:00"), an am/pm marker, an ISO date-time, the boundary*)
(* marker.  Lexemes are named by their spelling.  In every text the model  *)
(* builds, two word lexemes are separated by a non-word symbol, and a time *)
(* or ISO lexeme stands only where a time stamp is expected, so that the   *)
(* code's character-level operations (strip, splitlines, split on the      *)
(* marker, the search for the first colon) act on symbols exactly as they  *)
(* act on the characters.                                                  *)
(*                                                                         *)
(* A Python dict is a TLA+ record; a key the dict does not have is a field *)
(* the record does not have ("Error" \in DOMAIN r).                        *)
(***************************************************************************)
EXTENDS Integers, Sequences, FiniteSets, TLC

VARIABLES
    pc,                  \* where the running entry point is
    input_items,         \* generate_report: the files to read, in listing order
    fileIdx,             \* generate_report: index of the file the loop is at
    full_content,        \* the local variable full_content ([bound |-> FALSE] before its first assignment)
    results,             \* the list `results` of the running entry point
    calls,               \* every record handed to the three analyzers, in call order
    summary,             \* what the metrics step returned ([reached |-> FALSE] before it ran)
    ham_words,           \* SpamDetector.ham_words   (a defaultdict(int): word -> count)
    spam_words,          \* SpamDetector.spam_words  (a defaultdict(int): word -> count)
    ham_messages_count,  \* SpamDetector.ham_messages_count
    spam_messages_count, \* SpamDetector.spam_messages_count
    all_words,           \* SpamDetector.all_words (the vocabulary)
    arg,                 \* the arguments of the parser or detector being run on its own
    idx,                 \* how many turns its loop has made
    ret                  \* its result so far (the list it builds), then what it returns

vars == <<pc, input_items, fileIdx, full_content, results, calls, summary,
          ham_words, spam_words, ham_messages_count, spam_messages_count,
          all_words, arg, idx, ret>>

pipelineVars == <<input_items, fileIdx, full_content, results, calls, summary>>
harnessVars == <<arg, idx, ret>>
modelVars == <<ham_words, spam_words, ham_messages_count, spam_messages_count, all_words>>

-----------------------------------------------------------------------------
(* Bounds of the model *)

MaxLines == 3        \* lines of a generated chat-log content
MaxBlocks == 3       \* boundary-separated pieces of a generated multi-email content
MaxFiles == 2        \* files of one report batch
MaxPredicts == 2     \* predict calls on one trained classifier
MaxRecords == 3      \* result records in one batch handed to the two metric functions
MaxTextLen == 3      \* lexemes of a text handed to an analyzer or a tokenizer
MaxTrained == 3      \* messages trained one after the other from the empty model
MaxDetectLines == 6  \* lines of a content handed to format detection
MaxTyped == 2        \* lines typed for one custom message at the command line

-----------------------------------------------------------------------------
(* Text primitives *)

NL == "\n"
SP == " "
COLON == ":"
COMMA == ","
DASH == "-"

Min(S) == CHOOSE m \in S : \A n \in S : m <= n
Max(S) == CHOOSE m \in S : \A n \in S : m >= n

\* str.strip() with no argument removes leading and trailing whitespace.
IsSpace(c) == c \in {SP, NL}

strip(s) ==
    LET keep == {i \in 1..Len(s) : ~IsSpace(s[i])}
    IN  IF keep = {} THEN <<>> ELSE SubSeq(s, Min(keep), Max(keep))

\* str.splitlines(): the pieces between newlines; a trailing newline adds no
\* empty last line and the empty string has no lines.
RECURSIVE splitlines(_)
splitlines(s) ==
    IF s = <<>> THEN <<>>
    ELSE LET nl == {i \in 1..Len(s) : s[i] = NL}
         IN  IF nl = {} THEN <<s>>
             ELSE <<SubSeq(s, 1, Min(nl) - 1)>> \o splitlines(SubSeq(s, Min(nl) + 1, Len(s)))

\* str.split(sep) for a separator that is one symbol: n separators give n+1
\* pieces, empty ones included.
RECURSIVE split(_, _)
split(s, sep) ==
    LET at == {i \in 1..Len(s) : s[i] = sep}
    IN  IF at = {} THEN <<s>>
        ELSE <<SubSeq(s, 1, Min(at) - 1)>> \o split(SubSeq(s, Min(at) + 1, Len(s)), sep)

\* sep.join(parts)
RECURSIVE join(_, _)
join(parts, sep) ==
    IF parts = <<>> THEN <<>>
    ELSE IF Len(parts) = 1 THEN parts[1]
    ELSE parts[1] \o sep \o join(Tail(parts), sep)

\* s[:n]
prefix(s, n) == SubSeq(s, 1, IF Len(s) < n THEN Len(s) ELSE n)

\* the number of leading whitespace symbols of s, i.e. what a greedy \s* takes
RECURSIVE leadingSpaces(_)
leadingSpaces(s) ==
    IF s # <<>> /\ IsSpace(Head(s)) THEN 1 + leadingSpaces(Tail(s)) ELSE 0

\* s[n:] for a 0-based n
from(s, n) == SubSeq(s, n + 1, Len(s))

\* str(n) of a small natural number, as one lexeme
str(n) == <<"0", "1", "2", "3", "4", "5", "6", "7", "8", "9", "10", "11", "12">>[n + 1]

-----------------------------------------------------------------------------
(* Dates and times.  A datetime.datetime is a record of its fields; None is  *)
(* the record None; a time stamp kept as text is [kind |-> "str"].           *)

None == [kind |-> "None"]
datetime(y, mo, d, h, mi, s) ==
    [kind |-> "datetime", year |-> y, month |-> mo, day |-> d, hour |-> h, minute |-> mi, second |-> s]
text(s) == [kind |-> "str", s |-> s]

\* The date lexemes d1/d2/y of the model, with the digits of the year as written.
DateLexemes == {"1/1/25", "1/2/25", "1/1/2025", "13/1/25", "1/1/202", "2/30/25"}
DateField(x) ==
    CASE x = "1/1/25"   -> [first |-> 1,  second |-> 1,  year |-> 25,   yearDigits |-> 2]
      [] x = "1/2/25"   -> [first |-> 1,  second |-> 2,  year |-> 25,   yearDigits |-> 2]
      [] x = "1/1/2025" -> [first |-> 1,  second |-> 1,  year |-> 2025, yearDigits |-> 4]
      [] x = "13/1/25"  -> [first |-> 13, second |-> 1,  year |-> 25,   yearDigits |-> 2]
      [] x = "1/1/202"  -> [first |-> 1,  second |-> 1,  year |-> 202,  yearDigits |-> 3]
      [] x = "2/30/25"  -> [first |-> 2,  second |-> 30, year |-> 25,   yearDigits |-> 2]

\* The time lexemes h:mm of the model.
TimeLexemes == {"10:00", "10:05", "13:00", "0:30"}
TimeField(x) ==
    CASE x = "10:00" -> [hour |-> 10, minute |-> 0]
      [] x = "10:05" -> [hour |-> 10, minute |-> 5]
      [] x = "13:00" -> [hour |-> 13, minute |-> 0]
      [] x = "0:30"  -> [hour |-> 0,  minute |-> 30]

\* am/pm markers, which the pattern and %p both read case-insensitively
AmPmLexemes == {"AM", "pm"}
IsPm(x) == x = "pm"

Digit(n) == <<"0", "1", "2", "3", "4", "5", "6", "7", "8", "9">>[n + 1]
pad2(n) == Digit((n \div 10) % 10) \o Digit(n % 10)
pad4(n) == pad2(n \div 100) \o pad2(n % 100)
\* %Y of strftime (glibc): the year in decimal, without leading zeros
strftime_Y(y) ==
    IF y >= 1000 THEN pad4(y)
    ELSE IF y >= 100 THEN Digit(y \div 100) \o pad2(y % 100)
    ELSE IF y >= 10 THEN pad2(y)
    ELSE Digit(y)
\* t.strftime("%Y-%m-%d %H:%M:%S"), one lexeme
strftime(t) ==
    <<strftime_Y(t.year) \o "-" \o pad2(t.month) \o "-" \o pad2(t.day) \o " "
      \o pad2(t.hour) \o ":" \o pad2(t.minute) \o ":" \o pad2(t.second)>>

\* The ISO date-time lexemes YYYY-MM-DD HH:MM:SS of the model, with the year
\* in four digits as strptime's %Y requires: those of the points in time of
\* IsoDatetimes, and one with a month 13.
IsoDatetimes ==
    {datetime(2025, 1, d, h, mi, sec) : d \in {1, 2}, h \in 0..23, mi \in {0, 5, 10, 30}, sec \in {0, 1, 2, 4}}
    \cup {datetime(999, 1, 1, 10, mi, 0) : mi \in {0, 5}}
IsoSpelling ==
    {<<pad4(t.year) \o "-" \o pad2(t.month) \o "-" \o pad2(t.day) \o " "
         \o pad2(t.hour) \o ":" \o pad2(t.minute) \o ":" \o pad2(t.second), t>> : t \in IsoDatetimes}
IsoLexemes == {e[1] : e \in IsoSpelling} \cup {"2025-13-01 10:00:00"}
IsoField(x) ==
    IF x = "2025-13-01 10:00:00"
    THEN [year |-> 2025, month |-> 13, day |-> 1, hour |-> 10, minute |-> 0, second |-> 0]
    ELSE (CHOOSE e \in IsoSpelling : e[1] = x)[2]

IsLeap(y) == (y % 4 = 0 /\ y % 100 # 0) \/ y % 400 = 0
DaysInMonth(y, m) ==
    IF m = 2 THEN (IF IsLeap(y) THEN 29 ELSE 28)
    ELSE IF m \in {4, 6, 9, 11} THEN 30 ELSE 31

\* What strptime answers: a value, or ValueError.
ValueError == [ok |-> FALSE]
Parsed(v) == [ok |-> TRUE, v |-> v]

\* datetime.strptime(s, "%m/%d/<year> <clock>:%M[ %p]") for the four chat formats:
\* year is "%y" (exactly two digits, 69..99 -> 19xx, else 20xx) or "%Y" (exactly
\* four digits); clock is "%I" (1..12, followed by whitespace and an am/pm marker)
\* or "%H" (0..23, nothing after the minutes).  White space in a format stands
\* for one or more white-space characters, and the whole string must be used.
strptime(s, year, clock) ==
    IF ~(Len(s) >= 3 /\ s[1] \in DateLexemes /\ IsSpace(s[2])) THEN ValueError
    ELSE
    LET a == Tail(s)
        b == from(a, leadingSpaces(a))
    IN  IF ~(b # <<>> /\ b[1] \in TimeLexemes) THEN ValueError
        ELSE
        LET D == DateField(s[1])
            T == TimeField(b[1])
            c == Tail(b)
            c1 == from(c, leadingSpaces(c))
            y == IF year = "%y" THEN (IF D.year < 69 THEN 2000 + D.year ELSE 1900 + D.year)
                 ELSE D.year
            dateOk == /\ D.yearDigits = (IF year = "%y" THEN 2 ELSE 4)
                      /\ D.first \in 1..12
                      /\ y >= 1
                      /\ D.second \in 1..DaysInMonth(y, D.first)
                      /\ T.minute \in 0..59
        IN  IF ~dateOk THEN ValueError
            ELSE IF clock = "%I"
            THEN IF /\ T.hour \in 1..12
                    /\ leadingSpaces(c) >= 1
                    /\ Len(c1) = 1
                    /\ c1[1] \in AmPmLexemes
                 THEN Parsed(datetime(y, D.first, D.second,
                                      (T.hour % 12) + (IF IsPm(c1[1]) THEN 12 ELSE 0),
                                      T.minute, 0))
                 ELSE ValueError
            ELSE IF T.hour \in 0..23 /\ c = <<>>
                 THEN Parsed(datetime(y, D.first, D.second, T.hour, T.minute, 0))
                 ELSE ValueError

\* datetime.strptime(s, "%Y-%m-%d %H:%M:%S")
strptime_iso(s) ==
    IF Len(s) = 1 /\ s[1] \in IsoLexemes
    THEN LET F == IsoField(s[1])
         IN  IF /\ F.month \in 1..12
                /\ F.day \in 1..DaysInMonth(F.year, F.month)
                /\ F.hour \in 0..23 /\ F.minute \in 0..59 /\ F.second \in 0..59
             THEN Parsed(datetime(F.year, F.month, F.day, F.hour, F.minute, F.second))
             ELSE ValueError
    ELSE ValueError

-----------------------------------------------------------------------------
(* modules/report_generator.py: the chat-log parser *)

\* whatsapp_line_pattern with a greedy sender group, (.+): in place of ([^:]+?): --
\* the sender then runs to the last colon of the line.
whatsapp_line_pattern_greedy(line) ==
    IF ~(Len(line) >= 2 /\ line[1] \in DateLexemes /\ line[2] = COMMA) THEN [matched |-> FALSE]
    ELSE
    LET a == from(line, 2)
        b == from(a, leadingSpaces(a))
    IN  IF ~(b # <<>> /\ b[1] \in TimeLexemes) THEN [matched |-> FALSE]
        ELSE
        LET c == Tail(b)
            c1 == from(c, leadingSpaces(c))
            hasAmPm == c1 # <<>> /\ c1[1] \in AmPmLexemes
            time_part == IF hasAmPm THEN SubSeq(b, 1, leadingSpaces(c) + 2) ELSE <<b[1]>>
            d == IF hasAmPm THEN Tail(c1) ELSE c
            e == from(d, leadingSpaces(d))
        IN  IF ~(e # <<>> /\ e[1] = DASH) THEN [matched |-> FALSE]
            ELSE
            LET f == Tail(e)
                lead == leadingSpaces(f)
                colons == {i \in 1..Len(f) : f[i] = COLON}
            IN  IF colons = {} \/ Max(colons) = 1 THEN [matched |-> FALSE]
                ELSE
                LET k == Max(colons)
                    start == IF k - 1 > lead THEN lead + 1 ELSE lead
                    g == from(f, k)
                IN  [matched |-> TRUE,
                     date_part |-> line[1],
                     time_part |-> time_part,
                     sender |-> SubSeq(f, start, k - 1),
                     message_text |-> from(g, leadingSpaces(g))]

\* whatsapp_line_pattern.match(line): the four groups, or no match.
\*   ^(\d{1,2}/\d{1,2}/\d{2,4}),\s*(\d{1,2}:\d{2}(?:\s*(?i:am|pm))?)\s*-\s*([^:]+?):\s*(.*)$
\* The sender group is at least one character and holds no colon, so it ends
\* at the first colon after the dash; when only white space stands between the
\* dash and that colon, the \s* before the group gives one character back.
NoMatch == [matched |-> FALSE]
whatsapp_line_pattern(line) ==
    IF ~(Len(line) >= 2 /\ line[1] \in DateLexemes /\ line[2] = COMMA) THEN NoMatch
    ELSE
    LET a == from(line, 2)
        b == from(a, leadingSpaces(a))
    IN  IF ~(b # <<>> /\ b[1] \in TimeLexemes) THEN NoMatch
        ELSE
        LET c == Tail(b)
            c1 == from(c, leadingSpaces(c))
            hasAmPm == c1 # <<>> /\ c1[1] \in AmPmLexemes
            time_part == IF hasAmPm THEN SubSeq(b, 1, leadingSpaces(c) + 2) ELSE <<b[1]>>
            d == IF hasAmPm THEN Tail(c1) ELSE c
            e == from(d, leadingSpaces(d))
        IN  IF ~(e # <<>> /\ e[1] = DASH) THEN NoMatch
            ELSE
            LET f == Tail(e)
                lead == leadingSpaces(f)
                colons == {i \in 1..Len(f) : f[i] = COLON}
            IN  IF colons = {} \/ Min(colons) = 1 THEN NoMatch
                ELSE
                LET k == Min(colons)
                    start == IF k - 1 > lead THEN lead + 1 ELSE lead
                    g == from(f, k)
                IN  [matched |-> TRUE,
                     date_part |-> line[1],
                     time_part |-> time_part,
                     sender |-> SubSeq(f, start, k - 1),
                     message_text |-> from(g, leadingSpaces(g))]

\* The chain of four formats of lines 126-140: the first that parses wins,
\* otherwise the time stamp stays None.
parse_chat_timestamp(timestamp_str) ==
    LET t1 == strptime(timestamp_str, "%y", "%I")
        t2 == strptime(timestamp_str, "%Y", "%I")
        t3 == strptime(timestamp_str, "%y", "%H")
        t4 == strptime(timestamp_str, "%Y", "%H")
    IN  IF t1.ok THEN t1.v
        ELSE IF t2.ok THEN t2.v
        ELSE IF t3.ok THEN t3.v
        ELSE IF t4.ok THEN t4.v
        ELSE None

\* f"whatsapp_chat_{os.path.basename(filename).replace('.', '_')}"
whatsapp_conversation_id(filename) ==
    <<"whatsapp_chat_">> \o [i \in 1..Len(filename) |-> IF filename[i] = "." THEN "_" ELSE filename[i]]

\* chat_line with the skip of line 154 widened from the first line to every
\* line that has no record before it.
chat_line_skips_leading(messages, raw, line_num, filename) ==
    LET line == strip(raw)
        match == whatsapp_line_pattern(line)
    IN  IF line = <<>> THEN messages
        ELSE IF match.matched
        THEN Append(messages,
                 [Source |-> filename,
                  MessageID |-> filename \o <<"_line_", str(line_num)>>,
                  Sender |-> strip(match.sender),
                  ConversationID |-> whatsapp_conversation_id(filename),
                  Timestamp |-> parse_chat_timestamp(<<match.date_part, SP>> \o strip(match.time_part)),
                  Subject |-> <<"WhatsApp Chat Message">>,
                  Message |-> strip(match.message_text)])
        ELSE IF messages # <<>>
        THEN [messages EXCEPT ![Len(messages)].Message = @ \o <<NL>> \o line]
        ELSE messages

\* One turn of the loop of lines 116-165: `raw` is line number line_num.
chat_line(messages, raw, line_num, filename) ==
    LET line == strip(raw)
        match == whatsapp_line_pattern(line)
    IN  IF line = <<>> THEN messages
        ELSE IF match.matched
        THEN Append(messages,
                 [Source |-> filename,
                  MessageID |-> filename \o <<"_line_", str(line_num)>>,
                  Sender |-> strip(match.sender),
                  ConversationID |-> whatsapp_conversation_id(filename),
                  Timestamp |-> parse_chat_timestamp(<<match.date_part, SP>> \o strip(match.time_part)),
                  Subject |-> <<"WhatsApp Chat Message">>,
                  Message |-> strip(match.message_text)])
        ELSE IF messages # <<>>
        THEN [messages EXCEPT ![Len(messages)].Message = @ \o <<NL>> \o line]
        ELSE IF line_num = 1 THEN messages
        ELSE Append(messages,
                 [Source |-> filename,
                  MessageID |-> filename \o <<"_line_", str(line_num), "_unformatted">>,
                  Sender |-> <<"Unknown">>,
                  ConversationID |-> whatsapp_conversation_id(filename),
                  Timestamp |-> None,
                  Subject |-> <<"Unformatted Chat Line">>,
                  Message |-> line])

RECURSIVE chat_lines(_, _, _, _)
chat_lines(messages, lines, line_num, filename) ==
    IF line_num > Len(lines) THEN messages
    ELSE chat_lines(chat_line(messages, lines[line_num], line_num, filename),
                    lines, line_num + 1, filename)

_parse_whatsapp_content(file_content, filename) ==
    chat_lines(<<>>, splitlines(file_content), 1, filename)

-----------------------------------------------------------------------------
(* modules/report_generator.py: the single-email and multi-email parsers *)

EMAIL_BOUNDARY_SEPARATOR == "---EMAIL_BOUNDARY---"

\* block[:200] keeps 200 characters
PREVIEW_LEN == 200

\* str.lower() of a lexeme: the lexemes of the model that hold an upper-case
\* letter, each with its lower-case spelling; every other lexeme is unchanged.
lower(w) ==
    CASE w \in {"From", "FROM"} -> "from"
      [] w \in {"Date", "DATE"} -> "date"
      [] w = "Subject" -> "subject"
      [] w = "Conversation-ID" -> "conversation-id"
      [] w = "X-Other" -> "x-other"
      [] w = "AM" -> "am"
      [] w = "Alice" -> "alice"
      [] w = "Bob" -> "bob"
      [] w = "Eve" -> "eve"
      [] w = "Mallory" -> "mallory"
      [] w = "First" -> "first"
      [] w = "Re" -> "re"
      [] w = "Hey" -> "hey"
      [] w = "Hi" -> "hi"
      [] w = "Messages" -> "messages"
      [] w = "---EMAIL_BOUNDARY---" -> "---email_boundary---"
      [] w = "Informal" -> "informal"
      [] w = "Great" -> "great"
      [] w = "WhatsApp" -> "whatsapp"
      [] w = "Email" -> "email"
      [] w = "SMS" -> "sms"
      [] w = "Other" -> "other"
      [] w \in {"Back", "BACK"} -> "back"
      [] w = "Cancel" -> "cancel"
      [] w = "Y" -> "y"
      [] OTHER -> w

\* line.lower().startswith(name + ":")
starts_with_header(line, name) ==
    Len(line) >= 2 /\ lower(line[1]) = name /\ line[2] = COLON

\* line[len(name + ":"):].strip()
header_value(line) == strip(from(line, 2))

\* The failure that the try/except of _parse_multi_email_file and of the report
\* loops is written for: RAISES stands for whatever makes
\* _parse_single_email_block raise an exception on a block.  It is one
\* character of the block, and an ordinary character to every other function.
RAISES == "#"
block_raises(email_block_content) ==
    \E i \in 1..Len(email_block_content) : email_block_content[i] = RAISES

DefaultHeaders ==
    [Sender |-> <<"Unknown">>, ConversationID |-> <<"N/A">>, Timestamp |-> None, Subject |-> <<"No Subject">>]

\* The loop with a header line of no recognised prefix taken as body text.
email_line_keeps_unrecognised(st, line) ==
    IF ~st.header_end_found /\ strip(line) = <<>>
    THEN [st EXCEPT !.header_end_found = TRUE]
    ELSE IF ~st.header_end_found
    THEN IF starts_with_header(line, "from")
         THEN [st EXCEPT !.headers.Sender = header_value(line)]
         ELSE IF starts_with_header(line, "date")
         THEN [st EXCEPT !.headers.Timestamp =
                    IF strptime_iso(header_value(line)).ok THEN strptime_iso(header_value(line)).v
                    ELSE text(header_value(line))]
         ELSE IF starts_with_header(line, "conversation-id")
         THEN [st EXCEPT !.headers.ConversationID = header_value(line)]
         ELSE IF starts_with_header(line, "subject")
         THEN [st EXCEPT !.headers.Subject = header_value(line)]
         ELSE [st EXCEPT !.body = Append(@, line)]
    ELSE [st EXCEPT !.body = Append(@, line)]

\* One turn of the loop of lines 42-62; st = [headers, body, header_end_found].
email_line(st, line) ==
    IF ~st.header_end_found /\ strip(line) = <<>>
    THEN [st EXCEPT !.header_end_found = TRUE]
    ELSE IF ~st.header_end_found
    THEN IF starts_with_header(line, "from")
         THEN [st EXCEPT !.headers.Sender = header_value(line)]
         ELSE IF starts_with_header(line, "date")
         THEN LET date_str == header_value(line)
                  t == strptime_iso(date_str)
              IN  [st EXCEPT !.headers.Timestamp = IF t.ok THEN t.v ELSE text(date_str)]
         ELSE IF starts_with_header(line, "conversation-id")
         THEN [st EXCEPT !.headers.ConversationID = header_value(line)]
         ELSE IF starts_with_header(line, "subject")
         THEN [st EXCEPT !.headers.Subject = header_value(line)]
         ELSE st
    ELSE [st EXCEPT !.body = Append(@, line)]

RECURSIVE email_lines(_, _)
email_lines(st, lines) ==
    IF lines = <<>> THEN st ELSE email_lines(email_line(st, Head(lines)), Tail(lines))

\* Returns (headers, body), or raises.
_parse_single_email_block(email_block_content) ==
    IF block_raises(email_block_content)
    THEN [raised |-> TRUE, e |-> <<"Exception">>]
    ELSE LET st == email_lines([headers |-> DefaultHeaders, body |-> <<>>, header_end_found |-> FALSE],
                               splitlines(email_block_content))
         IN  [raised |-> FALSE, headers |-> st.headers, body |-> strip(join(st.body, <<NL>>))]

\* the number of characters of a text (halving keeps the evaluation shallow)
RECURSIVE charLen(_)
charLen(s) ==
    IF s = <<>> THEN 0
    ELSE IF Len(s) = 1 THEN Len(s[1])
    ELSE charLen(SubSeq(s, 1, Len(s) \div 2)) + charLen(SubSeq(s, Len(s) \div 2 + 1, Len(s)))

\* s[:n] counted in characters, for a cut that falls between two symbols
RECURSIVE take(_, _)
take(s, n) ==
    IF charLen(s) <= n THEN s
    ELSE IF Len(s) = 1 THEN <<>>
    ELSE LET a == SubSeq(s, 1, Len(s) \div 2)
         IN  IF charLen(a) >= n THEN take(a, n)
             ELSE a \o take(SubSeq(s, Len(s) \div 2 + 1, Len(s)), n - charLen(a))

\* _parse_multi_email_file with the preview of line 97 left uncut
multi_block_uncut(parsed_emails, raw, i, filename) ==
    LET block == strip(raw)
        p == _parse_single_email_block(block)
    IN  IF block = <<>> THEN parsed_emails
        ELSE IF ~p.raised
        THEN Append(parsed_emails,
                 [Source |-> filename,
                  MessageID |-> filename \o <<"_email_", str(i + 1)>>,
                  Sender |-> p.headers.Sender,
                  ConversationID |-> p.headers.ConversationID,
                  Timestamp |-> p.headers.Timestamp,
                  Subject |-> p.headers.Subject,
                  Message |-> p.body])
        ELSE Append(parsed_emails,
                 [Source |-> filename,
                  MessageID |-> filename \o <<"_email_", str(i + 1), "_error">>,
                  Error |-> p.e,
                  Message |-> block])

\* _parse_multi_email_file keeping one headers dict for all blocks: a header a
\* block lacks then keeps the value of the block before it
multi_block_shared_headers(parsed_emails, raw, i, filename) ==
    LET block == strip(raw)
        prev == IF parsed_emails # <<>> /\ "Error" \notin DOMAIN parsed_emails[Len(parsed_emails)]
                THEN [Sender |-> parsed_emails[Len(parsed_emails)].Sender,
                      ConversationID |-> parsed_emails[Len(parsed_emails)].ConversationID,
                      Timestamp |-> parsed_emails[Len(parsed_emails)].Timestamp,
                      Subject |-> parsed_emails[Len(parsed_emails)].Subject]
                ELSE DefaultHeaders
        st == email_lines([headers |-> prev, body |-> <<>>, header_end_found |-> FALSE], splitlines(block))
    IN  IF block = <<>> THEN parsed_emails
        ELSE IF ~block_raises(block)
        THEN Append(parsed_emails,
                 [Source |-> filename,
                  MessageID |-> filename \o <<"_email_", str(i + 1)>>,
                  Sender |-> st.headers.Sender,
                  ConversationID |-> st.headers.ConversationID,
                  Timestamp |-> st.headers.Timestamp,
                  Subject |-> st.headers.Subject,
                  Message |-> strip(join(st.body, <<NL>>))])
        ELSE Append(parsed_emails,
                 [Source |-> filename,
                  MessageID |-> filename \o <<"_email_", str(i + 1), "_error">>,
                  Error |-> <<"Exception">>,
                  Message |-> take(block, PREVIEW_LEN)])

\* One turn of the loop of lines 75-98: `raw` is email_blocks[i] (i from 0).
multi_block(parsed_emails, raw, i, filename) ==
    LET block == strip(raw)
        p == _parse_single_email_block(block)
    IN  IF block = <<>> THEN parsed_emails
        ELSE IF ~p.raised
        THEN Append(parsed_emails,
                 [Source |-> filename,
                  MessageID |-> filename \o <<"_email_", str(i + 1)>>,
                  Sender |-> p.headers.Sender,
                  ConversationID |-> p.headers.ConversationID,
                  Timestamp |-> p.headers.Timestamp,
                  Subject |-> p.headers.Subject,
                  Message |-> p.body])
        ELSE Append(parsed_emails,
                 [Source |-> filename,
                  MessageID |-> filename \o <<"_email_", str(i + 1), "_error">>,
                  Error |-> p.e,
                  Message |-> take(block, PREVIEW_LEN)])

RECURSIVE multi_blocks(_, _, _, _)
multi_blocks(parsed_emails, email_blocks, i, filename) ==
    IF i >= Len(email_blocks) THEN parsed_emails
    ELSE multi_blocks(multi_block(parsed_emails, email_blocks[i + 1], i, filename),
                      email_blocks, i + 1, filename)

_parse_multi_email_file(file_content, filename) ==
    multi_blocks(<<>>, split(file_content, EMAIL_BOUNDARY_SEPARATOR), 0, filename)

-----------------------------------------------------------------------------
(* modules/spam_detector.py *)

\* The lexemes without a letter, and the maximal runs of letters a-z of the
\* lower-cased spelling of the others.
NoLetters ==
    {SP, NL, COLON, COMMA, DASH, "!", "#", ".", "_", "'"} \cup DateLexemes \cup TimeLexemes \cup IsoLexemes
\* The runs of letters of a lexeme without text.lower(): [A-Za-z']+ on the text as it is.
letters_as_written(w) == IF w \in NoLetters THEN <<>> ELSE <<w>>
letters(w) ==
    CASE w \in NoLetters -> <<>>
      [] lower(w) = "---email_boundary---" -> <<"email", "boundary">>
      [] lower(w) = "conversation-id" -> <<"conversation", "id">>
      [] lower(w) = "x-other" -> <<"x", "other">>
      [] lower(w) = "c1" -> <<"c">>
      [] lower(w) = "don't" -> <<"don", "t">>
      [] OTHER -> <<lower(w)>>
starts_with_letter(w) == w \notin NoLetters /\ lower(w) # "---email_boundary---"
ends_with_letter(w) == w \notin NoLetters /\ lower(w) \notin {"---email_boundary---", "c1"}

\* re.findall over the symbols of a text: `runs(w)` are the matches inside one
\* symbol; a match that reaches the edge of a symbol goes on in the next one.
\* st = [words, cur]: the matches found and the match still open ("" if none).
flush(st) == IF st.cur = "" THEN st ELSE [words |-> Append(st.words, st.cur), cur |-> ""]

\* the first of several matches closes the open match; the last one stays open
close_first(st, r) ==
    IF Len(r) = 1 THEN st
    ELSE [words |-> st.words \o <<st.cur \o r[1]>> \o SubSeq(r, 2, Len(r) - 1), cur |-> ""]
open_last(st, r, ends) ==
    IF ends THEN [st EXCEPT !.cur = @ \o r[Len(r)]]
    ELSE [words |-> Append(st.words, st.cur \o r[Len(r)]), cur |-> ""]

findall_symbol(st, r, starts, ends) ==
    IF r = <<>> THEN flush(st)
    ELSE open_last(close_first(IF starts THEN st ELSE flush(st), r), r, ends)

RECURSIVE findall_letters(_, _)
findall_letters(st, txt) ==
    IF txt = <<>> THEN flush(st).words
    ELSE findall_letters(findall_symbol(st, letters(Head(txt)), starts_with_letter(Head(txt)),
                                        ends_with_letter(Head(txt))),
                         Tail(txt))

\* SpamDetector._tokenize: re.findall(r'[a-z]+', text.lower())
_tokenize(txt) == findall_letters([words |-> <<>>, cur |-> ""], txt)

\* A defaultdict(int) is a function from its keys to their counts.
EmptyCounts == <<>>
\* d[word] += 1
increment(d, word) ==
    IF word \in DOMAIN d THEN [d EXCEPT ![word] = @ + 1] ELSE d @@ (word :> 1)
\* The read d[word] of a defaultdict stores the default under a missing key.
touch(d, word) == IF word \in DOMAIN d THEN d ELSE d @@ (word :> 0)
\* sum(d.values())
RECURSIVE sum_values(_)
sum_values(d) ==
    IF DOMAIN d = {} THEN 0
    ELSE LET w == CHOOSE w \in DOMAIN d : TRUE
         IN  d[w] + sum_values([v \in DOMAIN d \ {w} |-> d[v]])

\* The fields of a SpamDetector after lines 22-26 of __init__.
EmptyDetector ==
    [ham_words |-> EmptyCounts, spam_words |-> EmptyCounts,
     ham_messages_count |-> 0, spam_messages_count |-> 0, all_words |-> {}]

RECURSIVE train_words(_, _, _)
train_words(self, words, is_spam) ==
    IF words = <<>> THEN self
    ELSE LET word == Head(words)
             s1 == [self EXCEPT !.all_words = @ \cup {word}]
             s2 == IF is_spam THEN [s1 EXCEPT !.spam_words = increment(@, word)]
                   ELSE [s1 EXCEPT !.ham_words = increment(@, word)]
         IN  train_words(s2, Tail(words), is_spam)

\* _train counting only the messages that have a token.
_train_unless_no_token(self, message, is_spam) ==
    IF _tokenize(message) = <<>> THEN self
    ELSE IF is_spam
    THEN [train_words(self, _tokenize(message), is_spam) EXCEPT !.spam_messages_count = @ + 1]
    ELSE [train_words(self, _tokenize(message), is_spam) EXCEPT !.ham_messages_count = @ + 1]

_train(self, message, is_spam) ==
    LET s1 == train_words(self, _tokenize(message), is_spam)
    IN  IF is_spam THEN [s1 EXCEPT !.spam_messages_count = @ + 1]
        ELSE [s1 EXCEPT !.ham_messages_count = @ + 1]

RECURSIVE train_lines(_, _, _)
train_lines(self, lines, is_spam) ==
    IF lines = <<>> THEN self
    ELSE train_lines(_train(self, strip(Head(lines)), is_spam), Tail(lines), is_spam)

\* the minimal default training of lines 82-83 and 103-104
default_training(self) ==
    _train(_train(self, <<"hello", SP, "how", SP, "are", SP, "you">>, FALSE),
           <<"buy", SP, "now", SP, "free", SP, "money">>, TRUE)

\* The except clause without its five assignments of lines 97-101.
keep_partial_training(self) == self
\* lines 97-101: the except clause drops what was trained before the failure
clear_partial_training(self) ==
    [self EXCEPT !.ham_words = EmptyCounts, !.spam_words = EmptyCounts,
                 !.ham_messages_count = 0, !.spam_messages_count = 0, !.all_words = {}]

\* lines 91-94 for a spam file that exists, and the except clause of lines 95-104
load_spam_file(trained, raises) ==
    IF raises THEN default_training(clear_partial_training(trained)) ELSE trained

\* A training file is absent, or has lines; reading it may raise (open, or the
\* decoding of a later line): `lines` are then the lines read, and trained
\* on, before the failure.
Absent == [exists |-> FALSE]
_load_and_train(self, ham_file, spam_file) ==
    IF ~ham_file.exists /\ ~spam_file.exists THEN default_training(self)
    ELSE IF ham_file.exists /\ ham_file.raises
    THEN default_training(clear_partial_training(train_lines(self, ham_file.lines, FALSE)))
    ELSE IF spam_file.exists
    THEN load_spam_file(train_lines(IF ham_file.exists THEN train_lines(self, ham_file.lines, FALSE)
                                    ELSE self,
                                    spam_file.lines, TRUE),
                        spam_file.raises)
    ELSE train_lines(self, ham_file.lines, FALSE)

\* A Python float (an IEEE 754 double) that is zero or positive and at most 1:
\* the value m * 2^e, the mantissa m held as four limbs of LimbBits bits, the
\* least significant first.  A normal number has 2^52 <= m < 2^53; a
\* subnormal number and zero have e = MinExponent.
LimbBits == 14
Limb == 2^LimbBits
MantissaBits == 53
MinExponent == -1074
FractionLimbs == 5

float_zero == [m |-> <<0, 0, 0, 0>>, e |-> MinExponent]
\* the literal 1.0
float_one == [m |-> <<0, 0, 0, 2^(MantissaBits - 1 - 3 * LimbBits)>>, e |-> 1 - MantissaBits]
is_float_zero(x) == x.m = <<0, 0, 0, 0>>

\* Natural numbers of any size, as sequences of limbs: limb number k (from 0),
\* bit number i (from 0), whether a bit below bit i is set, the bits from bit
\* s on (as four limbs), the number of bits.
limb(N, k) == IF k >= 0 /\ k < Len(N) THEN N[k + 1] ELSE 0
bit(N, i) == (limb(N, i \div LimbBits) \div 2^(i % LimbBits)) % 2
any_below(N, i) ==
    \/ \E k \in 0..(i \div LimbBits - 1) : limb(N, k) # 0
    \/ limb(N, i \div LimbBits) % 2^(i % LimbBits) # 0
shifted_limb(N, s, k) ==
    (limb(N, s \div LimbBits + k) \div 2^(s % LimbBits))
    + (limb(N, s \div LimbBits + k + 1) % 2^(s % LimbBits)) * 2^(LimbBits - (s % LimbBits))
shift_right(N, s) ==
    <<shifted_limb(N, s, 0), shifted_limb(N, s, 1), shifted_limb(N, s, 2), shifted_limb(N, s, 3)>>
bit_length_of_limb(x) == IF x = 0 THEN 0 ELSE CHOOSE k \in 1..LimbBits : 2^(k - 1) <= x /\ x < 2^k
bit_length(N) ==
    IF \A k \in 1..Len(N) : N[k] = 0 THEN 0
    ELSE LimbBits * (Max({k \in 1..Len(N) : N[k] # 0}) - 1)
         + bit_length_of_limb(N[Max({k \in 1..Len(N) : N[k] # 0})])

RECURSIVE carry_from(_, _)
carry_from(columns, c) ==
    IF columns = <<>> THEN (IF c = 0 THEN <<>> ELSE <<c>>)
    ELSE <<(Head(columns) + c) % Limb>> \o carry_from(Tail(columns), (Head(columns) + c) \div Limb)
plus_one(N) == carry_from(N, 1)

\* the product of two mantissas
column(X, Y, k) ==
    limb(X, 0) * limb(Y, k) + limb(X, 1) * limb(Y, k - 1)
    + limb(X, 2) * limb(Y, k - 2) + limb(X, 3) * limb(Y, k - 3)
multiply(X, Y) == carry_from([k \in 1..7 |-> column(X, Y, k - 1)], 0)

\* Rounding to the nearest double, ties to the even mantissa: the value N * 2^E
\* (plus, when `sticky`, a positive amount below 2^E) keeps its bits from bit
\* s on; `guard` is the first bit dropped, `rest` tells that a lower one is set.
rounded_up(q, e) ==
    IF limb(q, 3) = 2^(MantissaBits - 3 * LimbBits)
    THEN [m |-> <<0, 0, 0, 2^(MantissaBits - 1 - 3 * LimbBits)>>, e |-> e + 1]
    ELSE [m |-> q, e |-> e]
round_at(q, e, guard, rest) ==
    IF guard /\ (rest \/ q[1] % 2 = 1) THEN rounded_up(SubSeq(plus_one(q), 1, 4), e)
    ELSE [m |-> q, e |-> e]
round_from(N, E, sticky, s) ==
    round_at(shift_right(N, s), E + s, bit(N, s - 1) = 1, sticky \/ any_below(N, s - 1))
round_to_double(N, E, sticky) ==
    round_from(N, E, sticky,
               IF bit_length(N) - MantissaBits > MinExponent - E
               THEN bit_length(N) - MantissaBits ELSE MinExponent - E)

\* x * y
float_mul(x, y) ==
    IF is_float_zero(x) \/ is_float_zero(y) THEN float_zero
    ELSE round_to_double(multiply(x.m, y.m), x.e + y.e, FALSE)

\* a / b for two ints, 0 <= a <= b, 0 < b: the quotient by long division, one
\* limb at a time, FractionLimbs limbs after the point.
RECURSIVE div_limbs(_, _, _)
div_limbs(r, b, n) ==
    IF n = 0 THEN <<>>
    ELSE Append(div_limbs((r * Limb) % b, b, n - 1), (r * Limb) \div b)
RECURSIVE div_rem(_, _, _)
div_rem(r, b, n) == IF n = 0 THEN r ELSE div_rem((r * Limb) % b, b, n - 1)
float_div(a, b) ==
    IF a = 0 THEN float_zero
    ELSE round_to_double(Append(div_limbs(a % b, b, FractionLimbs), a \div b),
                         -(FractionLimbs * LimbBits),
                         div_rem(a % b, b, FractionLimbs) # 0)

\* x > y
float_gt(x, y) ==
    IF x.e # y.e THEN x.e > y.e
    ELSE \E k \in 1..4 : x.m[k] > y.m[k] /\ \A j \in (k + 1)..4 : x.m[j] = y.m[j]

\* Sums, products and comparisons of natural numbers of any size.
big_add(A, B) ==
    carry_from([k \in 1..Max({Len(A), Len(B)}) |-> limb(A, k - 1) + limb(B, k - 1)], 0)
\* X of four limbs times Y
big_mul(X, Y) == carry_from([k \in 1..(Len(Y) + 4) |-> column(X, Y, k - 1)], 0)
two_to(d) == [k \in 1..(d \div LimbBits + 1) |-> IF k = d \div LimbBits + 1 THEN 2^(d % LimbBits) ELSE 0]
big_gt(A, B) ==
    \E k \in 0..(Max({Len(A), Len(B)}) - 1) :
        /\ limb(A, k) > limb(B, k)
        /\ \A j \in (k + 1)..(Max({Len(A), Len(B)}) - 1) : limb(A, j) = limb(B, j)
\* N \div n and N % n for a small n > 0, from the highest limb down
RECURSIVE big_div(_, _)
big_div(N, n) ==
    IF N = <<>> THEN [q |-> <<>>, r |-> 0]
    ELSE [q |-> <<(big_div(Tail(N), n).r * Limb + Head(N)) \div n>> \o big_div(Tail(N), n).q,
          r |-> (big_div(Tail(N), n).r * Limb + Head(N)) % n]

\* x + y of two doubles that are not negative
float_add(x, y) ==
    IF is_float_zero(x) THEN y
    ELSE IF is_float_zero(y) THEN x
    ELSE round_to_double(big_add(big_mul(x.m, two_to(x.e - Min({x.e, y.e}))),
                                 big_mul(y.m, two_to(y.e - Min({x.e, y.e})))),
                         Min({x.e, y.e}), FALSE)
\* x / n of a double by an int n > 0
float_div_int(x, n) ==
    IF is_float_zero(x) THEN float_zero
    ELSE round_to_double(big_div([k \in 1..FractionLimbs |-> 0] \o x.m, n).q,
                         x.e - FractionLimbs * LimbBits,
                         big_div([k \in 1..FractionLimbs |-> 0] \o x.m, n).r # 0)
\* x > a / b for a double x and two ints, 0 <= a < 2^28, 0 < b < 2^14: x lies
\* above the fraction when x.m * b > a * 2^(-x.e) (x.e < 0 for every x below 2^52)
float_gt_fraction(x, a, b) ==
    ~is_float_zero(x) /\
    big_gt(big_mul(x.m, <<b>>), big_mul(<<a % Limb, a \div Limb, 0, 0>>, two_to(-x.e)))
\* x < a / b, likewise
float_lt_fraction(x, a, b) ==
    is_float_zero(x) \/
    big_gt(big_mul(<<a % Limb, a \div Limb, 0, 0>>, two_to(-x.e)), big_mul(x.m, <<b>>))

\* _calculate_word_probability (lines 107-128); the read of
\* category_word_counts[word] is accounted for by touch_all below.
_calculate_word_probability(word, category_word_counts, vocab_size) ==
    float_div((IF word \in DOMAIN category_word_counts THEN category_word_counts[word] ELSE 0) + 1,
              sum_values(category_word_counts) + vocab_size)

\* the loop of lines 161-163 for one category: the product, from 1.0 on, of the
\* probabilities of the words in their order
RECURSIVE likelihood(_, _, _)
likelihood(words, category_word_counts, vocab_size) ==
    IF words = <<>> THEN float_one
    ELSE float_mul(likelihood(SubSeq(words, 1, Len(words) - 1), category_word_counts, vocab_size),
                   _calculate_word_probability(words[Len(words)], category_word_counts, vocab_size))

vocab_size_of(self) == IF Cardinality(self.all_words) > 0 THEN Cardinality(self.all_words) ELSE 1

\* posterior_ham and posterior_spam of lines 167-168
posterior_ham(self, words) ==
    float_mul(likelihood(words, self.ham_words, vocab_size_of(self)),
              float_div(self.ham_messages_count, self.ham_messages_count + self.spam_messages_count))
posterior_spam(self, words) ==
    float_mul(likelihood(words, self.spam_words, vocab_size_of(self)),
              float_div(self.spam_messages_count, self.ham_messages_count + self.spam_messages_count))

RECURSIVE touch_all(_, _)
touch_all(d, words) == IF words = <<>> THEN d ELSE touch_all(touch(d, Head(words)), Tail(words))

\* Lines 172-175.  `computed` tells that the call got as far as the posteriors.
predict_from(self, ham, spam) ==
    [result |-> IF is_float_zero(ham) /\ is_float_zero(spam) THEN FALSE ELSE float_gt(spam, ham),
     self |-> self, computed |-> TRUE, posterior_ham |-> ham, posterior_spam |-> spam]

not_computed(self) == [result |-> FALSE, self |-> self, computed |-> FALSE]

\* predict from line 146 on, `words` being self._tokenize(message).  Every word
\* of the message is looked up in both defaultdicts (line 127).
predict_words(self, words) ==
    IF words = <<>> \/ (self.ham_messages_count = 0 /\ self.spam_messages_count = 0)
    THEN not_computed(self)
    ELSE predict_from([self EXCEPT !.ham_words = touch_all(@, words),
                                   !.spam_words = touch_all(@, words)],
                      posterior_ham(self, words), posterior_spam(self, words))

\* predict, lines 130-175
predict(self, message) ==
    IF strip(message) = <<>> THEN not_computed(self)
    ELSE predict_words(self, _tokenize(message))

-----------------------------------------------------------------------------
(* modules/sentiment_analyzer.py *)

positive_words ==
    {"good", "great", "excellent", "wonderful", "amazing", "happy", "joy",
     "love", "fantastic", "awesome", "brilliant", "positive", "super",
     "success", "benefit", "pleasure", "like", "best", "perfect", "nice",
     "beautiful", "friendly", "kind", "optimistic", "glad", "delight", "cheer",
     "agree", "fine", "ok", "okay", "cool", "yeah"}

negative_words ==
    {"bad", "terrible", "horrible", "awful", "sad", "unhappy", "hate",
     "poor", "negative", "fail", "problem", "issue", "worry", "stress",
     "difficult", "worst", "ugly", "dislike", "error", "compromise", "urgent",
     "spam", "scam", "fraud", "danger", "risk", "threat", "warning", "suspicious",
     "not", "no", "never", "can't", "don't"}

\* SentimentAnalyzer._tokenize: the same regular expression as SpamDetector's
sentiment_tokenize(txt) == findall_letters([words |-> <<>>, cur |-> ""], txt)

count_in(words, S) == Cardinality({i \in 1..Len(words) : words[i] \in S})

\* A classification by the mere presence of a positive word.
sentiment_of_any_positive(positive_count, negative_count) ==
    IF positive_count > 0 THEN "positive"
    ELSE IF negative_count > 0 THEN "negative"
    ELSE "neutral"

\* SentimentAnalyzer.analyze
sentiment_of(positive_count, negative_count) ==
    IF positive_count > negative_count THEN "positive"
    ELSE IF negative_count > positive_count THEN "negative"
    ELSE "neutral"

sentiment_words(words) ==
    sentiment_of(count_in(words, positive_words), count_in(words, negative_words \ positive_words))

sentiment_analyze(txt) ==
    IF strip(txt) = <<>> THEN "neutral" ELSE sentiment_words(sentiment_tokenize(txt))

-----------------------------------------------------------------------------
(* modules/style_analyzer.py *)

formal_keywords ==
    {"furthermore", "moreover", "hence", "thus", "consequently", "therefore",
     "sincerely", "regards", "cordially", "to whom it may concern", "pursuant to",
     "in accordance with", "commence", "terminate", "endeavor", "facilitate",
     "utilize", "prioritize", "hereby", "herein", "thereby", "therein", "herewith",
     "acquisition", "disbursement", "ameliorate", "concerning", "regarding", "notwithstanding",
     "respectfully", "additionally", "nevertheless", "subsequently",
     "heretofore", "hereunder", "thereafter", "thereupon", "whereby", "whereas",
     "inquire", "advise", "confirm", "request", "duly", "thereof",
     "accordingly", "according", "wherefore", "whereupon"}

informal_keywords ==
    {"hey", "hi", "lol", "brb", "btw", "gonna", "wanna", "lemme", "y'all",
     "asap", "imo", "fyi", "kinda", "sorta", "chill", "dude", "bro", "yeah",
     "nah", "awesome", "cool", "super", "greetings", "whats up", "cya", "np", "omg",
     "tho", "dunno", "nite", "pls", "thx", "u", "ur", "r", "lmao", "rofl",
     "gotta", "k", "cuz", "ya", "coz", "sup", "yo"}

contractions ==
    {"i'm", "you're", "he's", "she's", "it's", "we're", "they're", "i've",
     "you've", "we've", "they've", "i'd", "you'd", "he'd", "she'd", "we'd",
     "they'd", "i'll", "you'll", "he'll", "she'll", "it'll", "we'll", "they'll",
     "isn't", "aren't", "wasn't", "weren't", "hasn't", "haven't", "hadn't",
     "won't", "wouldn't", "don't", "doesn't", "didn't", "can't", "couldn't",
     "shouldn't", "mightn't", "mustn't", "shan't", "needn't"}

\* The maximal runs of [a-z'] of a lexeme: the apostrophe belongs to the run.
letters_and_apostrophes(w) ==
    CASE w = "'" -> <<"'">>
      [] lower(w) = "don't" -> <<"don't">>
      [] OTHER -> letters(w)

RECURSIVE findall_style(_, _)
findall_style(st, txt) ==
    IF txt = <<>> THEN flush(st).words
    ELSE findall_style(findall_symbol(st, letters_and_apostrophes(Head(txt)),
                                      Head(txt) = "'" \/ starts_with_letter(Head(txt)),
                                      Head(txt) = "'" \/ ends_with_letter(Head(txt))),
                       Tail(txt))

\* StyleAnalyzer._tokenize: re.findall(r"[a-z']+", text.lower())
style_tokenize(txt) == findall_style([words |-> <<>>, cur |-> ""], txt)

\* round(q, 0) of the fraction n / d (d > 0, n >= 0), halves to the even side
round_fraction(n, d) ==
    LET q == n \div d
        r == n % d
    IN  IF 2 * r > d \/ (2 * r = d /\ q % 2 = 1) THEN q + 1 ELSE q

\* The linear mapping of lines 104-108 without the clamping of line 105 and
\* without the bounds of line 111.
style_of_unclamped(signal, total_words) ==
    [StyleScore |-> round_fraction((5 * signal + 7 * total_words) * 10000 + 140000 * total_words,
                                   14 * total_words) - 10000,
     Formality |->
        IF 5 * signal > total_words THEN "formal"
        ELSE IF 10 * signal < -3 * total_words THEN "informal"
        ELSE "neutral"]

\* The classification with the two thresholds included: formal from a
\* formality score of 0.10 on, informal from -0.15 down.
style_of_thresholds_included(signal, total_words) ==
    [StyleScore |->
        IF 10 * signal >= 14 * total_words THEN 10000
        ELSE IF 10 * signal <= -14 * total_words THEN 0
        ELSE round_fraction((5 * signal + 7 * total_words) * 10000, 14 * total_words),
     Formality |->
        IF 5 * signal >= total_words THEN "formal"
        ELSE IF 10 * signal <= -3 * total_words THEN "informal"
        ELSE "neutral"]

\* StyleAnalyzer.analyze.  A style score is held in hundredths (50.0 is 5000).
\* With signal == 8 * formal - 3 * informal - 6 * contractions the code's
\* formality_score is signal / (2 * total_words), and
\* (clamped + 0.7) / 1.4 * 100 is (5 * signal + 7 * total_words) / (14 * total_words) * 100.
style_of(signal, total_words) ==
    [StyleScore |->
        IF 10 * signal >= 14 * total_words THEN 10000
        ELSE IF 10 * signal <= -14 * total_words THEN 0
        ELSE round_fraction((5 * signal + 7 * total_words) * 10000, 14 * total_words),
     Formality |->
        IF 5 * signal > total_words THEN "formal"
        ELSE IF 10 * signal < -3 * total_words THEN "informal"
        ELSE "neutral"]

style_words(words) ==
    IF words = <<>> THEN [StyleScore |-> 5000, Formality |-> "neutral"]
    ELSE style_of(8 * count_in(words, formal_keywords)
                  - 3 * count_in(words, informal_keywords \ formal_keywords)
                  - 6 * count_in(words, contractions),
                  Len(words))

style_analyze(txt) ==
    IF strip(txt) = <<>> THEN [StyleScore |-> 5000, Formality |-> "neutral"]
    ELSE style_words(style_tokenize(txt))

-----------------------------------------------------------------------------
(* modules/report_generator.py: format detection and the choice of a parser *)

\* The pattern of _is_whatsapp_format is the pattern of _parse_whatsapp_content
\* without its capture groups.
whatsapp_line_pattern_check(line) == whatsapp_line_pattern(line).matched

_is_whatsapp_format(first_lines) ==
    \E i \in 1..Len(first_lines) : whatsapp_line_pattern_check(strip(first_lines[i]))

\* EMAIL_BOUNDARY_SEPARATOR in file_content
_has_email_boundary(file_content) ==
    \E i \in 1..Len(file_content) : file_content[i] = EMAIL_BOUNDARY_SEPARATOR

\* full_content.splitlines()[:5]
FIRST_FEW == 5
first_few_lines(file_content) ==
    LET lines == splitlines(file_content)
    IN  SubSeq(lines, 1, Min({FIRST_FEW, Len(lines)}))

\* The else branch of the detection: the whole content is one email.
single_email(file_content, filename) ==
    LET p == _parse_single_email_block(file_content)
    IN  IF p.raised THEN [raised |-> TRUE, e |-> p.e]
        ELSE [raised |-> FALSE, strategy |-> "single",
              parsed_messages |->
                 <<[Source |-> filename,
                    MessageID |-> filename \o <<"_msg">>,
                    Sender |-> p.headers.Sender,
                    ConversationID |-> p.headers.ConversationID,
                    Timestamp |-> p.headers.Timestamp,
                    Subject |-> p.headers.Subject,
                    Message |-> p.body]>>]

\* generate_custom_test_report with the two tests of its detection swapped
custom_parsed_messages_boundary_first(file_content, filename) ==
    IF _has_email_boundary(file_content)
    THEN [raised |-> FALSE, strategy |-> "multi",
          parsed_messages |-> _parse_multi_email_file(file_content, filename)]
    ELSE IF _is_whatsapp_format(first_few_lines(file_content))
    THEN [raised |-> FALSE, strategy |-> "whatsapp",
          parsed_messages |-> _parse_whatsapp_content(file_content, filename)]
    ELSE single_email(file_content, filename)

\* generate_report, lines 287-307: `strategy` is the format the code announces.
report_parsed_messages(file_content, filename) ==
    IF _is_whatsapp_format(first_few_lines(file_content))
    THEN [raised |-> FALSE, strategy |-> "whatsapp",
          parsed_messages |-> _parse_whatsapp_content(file_content, filename)]
    ELSE IF _has_email_boundary(file_content)
    THEN [raised |-> FALSE, strategy |-> "multi",
          parsed_messages |-> _parse_multi_email_file(file_content, filename)]
    ELSE single_email(file_content, filename)

\* generate_custom_test_report, lines 412-432
custom_parsed_messages(file_content, filename) ==
    IF _is_whatsapp_format(first_few_lines(file_content))
    THEN [raised |-> FALSE, strategy |-> "whatsapp",
          parsed_messages |-> _parse_whatsapp_content(file_content, filename)]
    ELSE IF _has_email_boundary(file_content)
    THEN [raised |-> FALSE, strategy |-> "multi",
          parsed_messages |-> _parse_multi_email_file(file_content, filename)]
    ELSE single_email(file_content, filename)

-----------------------------------------------------------------------------
(* modules/metrics_calculator.py *)

RECURSIVE sum_scores(_)
sum_scores(entries) ==
    IF entries = <<>> THEN 0 ELSE Head(entries).StyleScore + sum_scores(Tail(entries))

has_error(entry) == "Error" \in DOMAIN entry
is_valid(entry) == ~has_error(entry)
count_where(entries, key, value) ==
    Cardinality({i \in 1..Len(entries) : key \in DOMAIN entries[i] /\ entries[i][key] = value})

\* isinstance(entry.get("Style Score"), (int, float))
has_style_score(entry) == "StyleScore" \in DOMAIN entry
\* The tally of a formality label compared as written, without lower().
formality_count_as_written(entries, label) ==
    Cardinality({i \in 1..Len(entries) :
                    "Formality" \in DOMAIN entries[i] /\ entries[i].Formality = label})
\* formality and formality.lower() == label
formality_count(entries, label) ==
    Cardinality({i \in 1..Len(entries) :
                    "Formality" \in DOMAIN entries[i] /\ lower(entries[i].Formality) = label})
\* sum(style_scores) of CPython 3.11: the scores are added as doubles from left to right; a
\* score of h hundredths is the double next to h / 100.
RECURSIVE float_sum(_)
float_sum(style_scores) ==
    IF style_scores = <<>> THEN float_zero
    ELSE float_add(float_sum(SubSeq(style_scores, 1, Len(style_scores) - 1)),
                   float_div(style_scores[Len(style_scores)].StyleScore, 100))
\* round(x, 2), in hundredths, of the double x that was computed for n / d
\* hundredths.  round() gives the hundredth next to the exact value of x; x
\* differs from n / d by rounding errors only, which matter when n / d lies
\* half-way between two hundredths: then x is rounded to the side of the
\* half-way point it lies on, and to the even hundredth when it is the
\* half-way point itself.
round_float(n, d, x) ==
    IF 2 * (n % d) > d THEN n \div d + 1
    ELSE IF 2 * (n % d) < d THEN n \div d
    ELSE IF float_gt_fraction(x, 2 * (n \div d) + 1, 200) THEN n \div d + 1
    ELSE IF float_lt_fraction(x, 2 * (n \div d) + 1, 200) THEN n \div d
    ELSE (n \div d) + ((n \div d) % 2)
\* round(sum(style_scores) / len(style_scores), 2) if style_scores else 0.0, in hundredths
average_style_score(style_scores) ==
    IF style_scores = <<>> THEN 0
    ELSE round_float(sum_scores(style_scores), Len(style_scores),
                     float_div_int(float_sum(style_scores), Len(style_scores)))

\* calculate_content_metrics: entries with an "Error" key are skipped.  The
\* average style score is in hundredths, like the scores.
calculate_content_metrics(results_) ==
    [TotalMessages |-> Len(SelectSeq(results_, is_valid)),
     SpamCounts |-> [SPAM |-> count_where(SelectSeq(results_, is_valid), "Spam", "SPAM"),
                     HAM |-> count_where(SelectSeq(results_, is_valid), "Spam", "HAM")],
     SentimentCounts |-> [positive |-> count_where(SelectSeq(results_, is_valid), "Sentiment", "positive"),
                          neutral |-> count_where(SelectSeq(results_, is_valid), "Sentiment", "neutral"),
                          negative |-> count_where(SelectSeq(results_, is_valid), "Sentiment", "negative")],
     AverageStyleScore |->
         average_style_score(SelectSeq(SelectSeq(results_, is_valid), has_style_score)),
     FormalityCounts |-> [formal |-> formality_count(SelectSeq(results_, is_valid), "formal"),
                          informal |-> formality_count(SelectSeq(results_, is_valid), "informal"),
                          neutral |-> formality_count(SelectSeq(results_, is_valid), "neutral")]]

\* date.toordinal() and (a - b).total_seconds() of two datetimes
days_before_year(y) == (y - 1) * 365 + (y - 1) \div 4 - (y - 1) \div 100 + (y - 1) \div 400
RECURSIVE days_before_month(_, _)
days_before_month(y, m) == IF m = 1 THEN 0 ELSE DaysInMonth(y, m - 1) + days_before_month(y, m - 1)
toordinal(t) == days_before_year(t.year) + days_before_month(t.year, t.month) + t.day
total_seconds(a, b) ==
    (toordinal(a) - toordinal(b)) * 86400
    + (a.hour - b.hour) * 3600 + (a.minute - b.minute) * 60 + (a.second - b.second)

\* list.sort() of datetimes: a stable insertion of each element in turn
RECURSIVE insert_sorted(_, _)
insert_sorted(sorted, t) ==
    IF sorted = <<>> THEN <<t>>
    ELSE IF total_seconds(sorted[Len(sorted)], t) <= 0 THEN Append(sorted, t)
    ELSE Append(insert_sorted(SubSeq(sorted, 1, Len(sorted) - 1), t), sorted[Len(sorted)])
\* The times of a conversation left in the order of the entries.
times_as_appended(times) == times
RECURSIVE sort_times(_)
sort_times(times) ==
    IF times = <<>> THEN <<>>
    ELSE insert_sorted(sort_times(SubSeq(times, 1, Len(times) - 1)), times[Len(times)])

\* Lines 86-110: the time of a time stamp, None if it has none.
time_obj(timestamp) ==
    IF timestamp.kind = "datetime" THEN timestamp
    ELSE IF timestamp.kind = "str"
    THEN IF strptime_iso(timestamp.s).ok THEN strptime_iso(timestamp.s).v
         ELSE parse_chat_timestamp(timestamp.s)
    ELSE None

\* The test of lines 82-113 without the skip of error records of line 68.
is_timed_errors_included(entry) ==
    /\ "ConversationID" \in DOMAIN entry /\ entry.ConversationID # <<>>
    /\ "Timestamp" \in DOMAIN entry /\ entry.Timestamp.kind # "None"
    /\ ~(entry.Timestamp.kind = "str" /\ entry.Timestamp.s = <<>>)
    /\ time_obj(entry.Timestamp).kind = "datetime"

\* if convo_id and timestamp: and then if time_obj: (lines 82-113)
is_timed(entry) ==
    /\ is_valid(entry)
    /\ "ConversationID" \in DOMAIN entry /\ entry.ConversationID # <<>>
    /\ "Timestamp" \in DOMAIN entry /\ entry.Timestamp.kind # "None"
    /\ ~(entry.Timestamp.kind = "str" /\ entry.Timestamp.s = <<>>)
    /\ time_obj(entry.Timestamp).kind = "datetime"

\* conversations_times[convo_id], in the order of the entries
RECURSIVE times_of(_, _)
times_of(entries, convo_id) ==
    IF entries = <<>> THEN <<>>
    ELSE IF is_timed(entries[Len(entries)]) /\ entries[Len(entries)].ConversationID = convo_id
    THEN Append(times_of(SubSeq(entries, 1, Len(entries) - 1), convo_id),
                time_obj(entries[Len(entries)].Timestamp))
    ELSE times_of(SubSeq(entries, 1, Len(entries) - 1), convo_id)

\* the keys of conversations_times, in the order of their insertion
RECURSIVE conversation_ids(_)
conversation_ids(entries) ==
    IF entries = <<>> THEN <<>>
    ELSE IF /\ is_timed(entries[Len(entries)])
            /\ \A i \in 1..(Len(entries) - 1) :
                  ~(is_timed(entries[i]) /\ entries[i].ConversationID = entries[Len(entries)].ConversationID)
    THEN Append(conversation_ids(SubSeq(entries, 1, Len(entries) - 1)), entries[Len(entries)].ConversationID)
    ELSE conversation_ids(SubSeq(entries, 1, Len(entries) - 1))

\* Lines 118-122 for one conversation: the gaps of its sorted times.
gaps_of(times) ==
    IF Len(times) >= 2
    THEN [i \in 1..(Len(times) - 1) |-> total_seconds(times[i + 1], times[i])]
    ELSE <<>>

\* response_gaps after the loop of lines 117-122
RECURSIVE response_gaps(_, _)
response_gaps(entries, convo_ids) ==
    IF convo_ids = <<>> THEN <<>>
    ELSE response_gaps(entries, SubSeq(convo_ids, 1, Len(convo_ids) - 1))
         \o gaps_of(sort_times(times_of(entries, convo_ids[Len(convo_ids)])))

RECURSIVE sum_of(_)
sum_of(numbers) == IF numbers = <<>> THEN 0 ELSE Head(numbers) + sum_of(Tail(numbers))

\* A float that is not a style score: its value in hundredths.
float_of(hundredths) == [kind |-> "float", hundredths |-> hundredths]

\* round(sum(response_gaps) / len(response_gaps), 2) if response_gaps else None
avg_response_time(gaps) ==
    IF gaps = <<>> THEN None ELSE float_of(round_fraction(sum_of(gaps) * 100, Len(gaps)))

CLARITY == "Improve clarity and structure in messages."
FORMAL_PHRASING == "Consider using more formal phrasing for professional contexts."
PROMPTNESS == "Respond to messages more promptly to improve conversation engagement."

\* The rules with the clarity suggestion also at an average of exactly 40.
suggestions_up_to_40(avg_style_score, formal, informal, avg_response) ==
    (IF avg_style_score <= 4000 THEN <<CLARITY>> ELSE <<>>)
    \o (IF formal + informal > 0 /\ 2 * informal > 3 * formal THEN <<FORMAL_PHRASING>> ELSE <<>>)
    \o (IF avg_response.kind = "float" /\ avg_response.hundredths > 360000 THEN <<PROMPTNESS>> ELSE <<>>)

\* Lines 128-143; the three thresholds are 40, 1.5 and 3600.
suggestions_of(avg_style_score, formal, informal, avg_response) ==
    (IF avg_style_score < 4000 THEN <<CLARITY>> ELSE <<>>)
    \o (IF formal + informal > 0 /\ 2 * informal > 3 * formal THEN <<FORMAL_PHRASING>> ELSE <<>>)
    \o (IF avg_response.kind = "float" /\ avg_response.hundredths > 360000 THEN <<PROMPTNESS>> ELSE <<>>)

\* dict(sender_freq): the senders of the valid entries and their numbers of entries
has_sender(entry) == "Sender" \in DOMAIN entry /\ entry.Sender # <<>>
top_senders(valid) ==
    [sender \in {valid[i].Sender : i \in {j \in 1..Len(valid) : has_sender(valid[j])}} |->
        Cardinality({i \in 1..Len(valid) : has_sender(valid[i]) /\ valid[i].Sender = sender})]

engagement_of(valid, gaps) ==
    [TopSenders |-> top_senders(valid),
     AverageResponseTime |-> avg_response_time(gaps),
     Suggestions |-> suggestions_of(average_style_score(SelectSeq(valid, has_style_score)),
                                    formality_count(valid, "formal"), formality_count(valid, "informal"),
                                    avg_response_time(gaps)),
     FormalityCounts |-> [formal |-> formality_count(valid, "formal"),
                          informal |-> formality_count(valid, "informal"),
                          neutral |-> formality_count(valid, "neutral")]]

calculate_engagement_metrics(results_) ==
    engagement_of(SelectSeq(results_, is_valid),
                  response_gaps(results_, conversation_ids(results_)))

-----------------------------------------------------------------------------
(* modules/report_generator.py: generate_report and generate_custom_test_report *)

\* The loop over parsed_messages (lines 309-325 and 434-449).
\* st = [self, results, calls]; `calls` lists the records handed to the three
\* analyzers, in the order of the calls.
analysed(st, msg_data, p, sentiment, style) ==
    [self |-> p.self,
     calls |-> Append(st.calls, msg_data),
     results |-> Append(st.results,
         [Spam |-> IF p.result THEN "SPAM" ELSE "HAM",
          Sentiment |-> sentiment,
          StyleScore |-> style.StyleScore,
          Formality |-> style.Formality] @@ msg_data)]

analyse(st, msg_data, message_to_analyze) ==
    IF strip(message_to_analyze) = <<>> THEN st
    ELSE analysed(st, msg_data, predict(st.self, message_to_analyze),
                  sentiment_analyze(message_to_analyze), style_analyze(message_to_analyze))

analyse_message(st, msg_data) ==
    analyse(st, msg_data, IF "Message" \in DOMAIN msg_data THEN msg_data.Message ELSE <<>>)

RECURSIVE analyse_messages(_, _)
analyse_messages(st, parsed_messages) ==
    IF parsed_messages = <<>> THEN st
    ELSE analyse_messages(analyse_message(st, Head(parsed_messages)), Tail(parsed_messages))

\* A file of the file system: its base name, whether open/read succeeds, and
\* its content.  ReadError is str(e) of the exception of a failed read.
ReadError == <<"UnicodeDecodeError">>
\* The local name full_content before and after its first assignment.
Unbound == [bound |-> FALSE]
Bound(v) == [bound |-> TRUE, v |-> v]

\* The try block and its except clause (lines 283-333 and 408-457) for one
\* file.  st = [self, results, calls, full_content, raised]: `raised` tells that
\* an exception left the except clause, which reads the name full_content.
file_done(a, file) ==
    [self |-> a.self, results |-> a.results, calls |-> a.calls,
     full_content |-> Bound(file.content), raised |-> FALSE]

file_read(parsed, st, file) ==
    IF parsed.raised
    THEN [st EXCEPT !.full_content = Bound(file.content),
                    !.results = Append(@, [Source |-> file.name,
                                           Error |-> parsed.e,
                                           Message |-> file.content])]
    ELSE file_done(analyse_messages([self |-> st.self, results |-> st.results, calls |-> st.calls],
                                    parsed.parsed_messages),
                   file)

file_unread(st, file) ==
    IF ~st.full_content.bound THEN [st EXCEPT !.raised = TRUE]
    ELSE [st EXCEPT !.results = Append(@, [Source |-> file.name,
                                           Error |-> ReadError,
                                           Message |-> st.full_content.v])]

\* The branch of generate_report for the two files of "digitallogssample"
\* (lines 251-277): every non-blank line is a message; `now` is what
\* datetime.now() answers.
log_entry(st, name, line_num, message_body, p, sentiment, style, now) ==
    [st EXCEPT !.self = p.self,
               !.calls = Append(@, [Message |-> message_body]),
               !.results = Append(@,
                   [Source |-> name,
                    MessageID |-> name \o <<"_line_", str(line_num)>>,
                    Message |-> message_body,
                    Spam |-> IF p.result THEN "SPAM" ELSE "HAM",
                    Sentiment |-> sentiment,
                    StyleScore |-> style.StyleScore,
                    Formality |-> style.Formality,
                    Sender |-> <<"Unknown">>,
                    ConversationID |-> <<"N/A">>,
                    Timestamp |-> text(strftime(now))])]

log_line(st, name, line_num, message_body, now) ==
    IF message_body = <<>> THEN st
    ELSE log_entry(st, name, line_num, message_body, predict(st.self, message_body),
                   sentiment_analyze(message_body), style_analyze(message_body), now)

RECURSIVE log_lines(_, _, _, _, _)
log_lines(st, lines, line_num, name, now) ==
    IF line_num > Len(lines) THEN st
    ELSE log_lines(log_line(st, name, line_num, strip(lines[line_num]), now),
                   lines, line_num + 1, name, now)

log_file(st, file, now) ==
    IF ~file.readable
    THEN [st EXCEPT !.results = Append(@, [Source |-> file.name,
                                           Error |-> ReadError,
                                           Message |-> <<"Could not read file.">>])]
    ELSE log_lines(st, splitlines(file.content), 1, file.name, now)

\* generate_report_from_custom_input (lines 514-641).  An argument that may be
\* None is None or text(s): `x if x else default`.
or_default(x, default) == IF x.kind = "str" /\ x.s # <<>> THEN x.s ELSE default

\* t.strftime("%Y-%m-%d_%H-%M-%S"), one lexeme
strftime_file_name(t) ==
    strftime_Y(t.year) \o "-" \o pad2(t.month) \o "-" \o pad2(t.day) \o "_"
    \o pad2(t.hour) \o "-" \o pad2(t.minute) \o "-" \o pad2(t.second)

input_fields(final_sender, final_convo_id, current_timestamp, final_subject, parsed_message_content) ==
    [raised |-> FALSE, final_sender |-> final_sender, final_convo_id |-> final_convo_id,
     current_timestamp |-> current_timestamp, final_subject |-> final_subject,
     parsed_message_content |-> parsed_message_content]

\* lines 532-551
input_whatsapp(temp_parsed, message, sender, conversation_id, now) ==
    IF temp_parsed # <<>>
    THEN input_fields(temp_parsed[1].Sender, temp_parsed[1].ConversationID, temp_parsed[1].Timestamp,
                      temp_parsed[1].Subject, temp_parsed[1].Message)
    ELSE input_fields(or_default(sender, <<"WhatsApp", SP, "User">>),
                      or_default(conversation_id, <<"typed_whatsapp_convo_", strftime_file_name(now)>>),
                      now, <<"WhatsApp", SP, "Message", SP, "(Unparsed)">>, message)

\* lines 553-567; the call of line 555 is outside every try block
input_email(temp, message, sender, conversation_id, now) ==
    IF temp.raised THEN [raised |-> TRUE]
    ELSE IF temp.headers.Sender # <<"Unknown">> \/ temp.headers.Subject # <<"No Subject">>
    THEN input_fields(temp.headers.Sender, temp.headers.ConversationID, temp.headers.Timestamp,
                      temp.headers.Subject, temp.body)
    ELSE input_fields(or_default(sender, <<"Email", SP, "Sender">>),
                      or_default(conversation_id, <<"typed_email_convo_", strftime_file_name(now)>>),
                      now, <<"Email", SP, "Message", SP, "(Unparsed)">>, message)

\* lines 525-576
input_metadata(message, sender, conversation_id, message_type, now) ==
    IF message_type = "WhatsApp"
    THEN input_whatsapp(_parse_whatsapp_content(message, <<"typed_whatsapp_msg", ".", "txt">>),
                        message, sender, conversation_id, now)
    ELSE IF message_type = "Email"
    THEN input_email(_parse_single_email_block(message), message, sender, conversation_id, now)
    ELSE IF message_type = "SMS"
    THEN input_fields(or_default(sender, <<"SMS", SP, "Sender">>),
                      or_default(conversation_id, <<"typed_sms_convo_", strftime_file_name(now)>>),
                      now, <<"SMS", SP, "Message">>, message)
    ELSE input_fields(or_default(sender, <<"User", SP, "Input">>),
                      or_default(conversation_id, <<"manual_convo_", strftime_file_name(now)>>),
                      now, <<"Custom", SP, "Message">>, message)

\* lines 579-596: the three analyzers and the one record of the report
input_result(meta, message_type, p, sentiment, style) ==
    [self |-> p.self,
     result |->
        [Source |-> <<"manual_input_", lower(message_type)>>,
         MessageID |-> <<"manual_msg_1">>,
         Sender |-> meta.final_sender,
         ConversationID |-> meta.final_convo_id,
         Timestamp |-> IF meta.current_timestamp.kind = "datetime"
                       THEN text(strftime(meta.current_timestamp)) ELSE meta.current_timestamp,
         Subject |-> meta.final_subject,
         Message |-> meta.parsed_message_content,
         Spam |-> IF p.result THEN "SPAM" ELSE "HAM",
         Sentiment |-> sentiment,
         StyleScore |-> style.StyleScore,
         Formality |-> style.Formality]]

input_analysis(self, meta, message_type) ==
    input_result(meta, message_type, predict(self, meta.parsed_message_content),
                 sentiment_analyze(meta.parsed_message_content),
                 style_analyze(meta.parsed_message_content))

\* Lines 336-338 and 460-462: a datetime becomes its text.
timestamps_to_text(results_) ==
    [i \in 1..Len(results_) |->
        IF "Timestamp" \in DOMAIN results_[i] /\ results_[i].Timestamp.kind = "datetime"
        THEN [results_[i] EXCEPT !.Timestamp = text(strftime(@))]
        ELSE results_[i]]

\* filename.endswith(".txt")
endswith_txt(filename) ==
    Len(filename) >= 2 /\ filename[Len(filename) - 1] = "." /\ filename[Len(filename)] = "txt"

-----------------------------------------------------------------------------
(* Inputs: file names and the lines chat-log contents are made of *)

FileNames == {<<"a", ".", "txt">>, <<"b", ".", "txt">>, <<"c", ".", "txt">>}
ParserFileNames == {<<"a", ".", "txt">>, <<"chat", ".", "v2", ".", "txt">>}

ChatLineAlice == <<"1/1/25", COMMA, SP, "10:00", SP, "AM", SP, DASH, SP, "Alice", COLON, SP, "Hey", SP, "Bob", "!">>
ChatLineBob24h == <<"1/1/2025", COMMA, SP, "13:00", SP, DASH, SP, "Bob", SP, COLON, SP, "Hi", COLON, SP, "there">>
ChatLineTight == <<SP, "1/2/25", COMMA, "10:05", SP, "pm", DASH, "Bob", COLON>>
ChatLineNoSpaceAm == <<"1/1/25", COMMA, SP, "10:00", "AM", SP, DASH, SP, "Bob", COLON, SP, "ok">>
ChatLineBadMonth == <<"13/1/25", COMMA, SP, "10:05", SP, "pm", SP, DASH, SP, SP, COLON, SP, "ok">>
ChatLineYear3 == <<"1/1/202", COMMA, SP, "10:00", SP, DASH, SP, "Alice", COLON, SP, "good">>
ChatLineBadDay == <<"2/30/25", COMMA, SP, "0:30", SP, "AM", SP, DASH, SP, "Alice", COLON, SP, "late">>
ChatLineNoColon == <<"1/1/25", COMMA, SP, "10:00", SP, DASH, SP, "no", SP, "colon">>
SystemLine == <<"Messages", SP, "are", SP, "encrypted">>
BlankLine == <<SP>>
BoundaryLine == <<EMAIL_BOUNDARY_SEPARATOR>>

ChatLines == {ChatLineAlice, ChatLineBob24h, ChatLineTight, ChatLineNoSpaceAm, ChatLineBadMonth,
              ChatLineYear3, ChatLineBadDay, ChatLineNoColon, SystemLine, BlankLine, <<>>, BoundaryLine}

\* All sequences over S of length lo..hi
SeqsOf(S, lo, hi) == UNION {[1..n -> S] : n \in lo..hi}

-----------------------------------------------------------------------------
(* SpecChat: _parse_whatsapp_content run on its own, one line per step *)

Idle == [reached |-> FALSE]
NoModel == <<>>

RestInit ==
    /\ input_items = <<>> /\ fileIdx = 0 /\ full_content = [bound |-> FALSE]
    /\ results = <<>> /\ calls = <<>> /\ summary = Idle
    /\ ham_words = NoModel /\ spam_words = NoModel
    /\ ham_messages_count = 0 /\ spam_messages_count = 0 /\ all_words = {}

InitChat ==
    /\ pc = "chat"
    /\ \E ls \in SeqsOf(ChatLines, 0, MaxLines), f \in ParserFileNames :
          arg = [file_content |-> join(ls, <<NL>>), filename |-> f]
    /\ idx = 0
    /\ ret = <<>>
    /\ RestInit

ChatLine ==
    /\ pc = "chat"
    /\ idx < Len(splitlines(arg.file_content))
    /\ ret' = chat_line(ret, splitlines(arg.file_content)[idx + 1], idx + 1, arg.filename)
    /\ idx' = idx + 1
    /\ UNCHANGED <<pc, arg, pipelineVars, modelVars>>

ChatReturn ==
    /\ pc = "chat"
    /\ idx = Len(splitlines(arg.file_content))
    /\ pc' = "chat_done"
    /\ UNCHANGED <<arg, idx, ret, pipelineVars, modelVars>>

NextChat == ChatLine \/ ChatReturn

SpecChat == InitChat /\ [][NextChat]_vars

-----------------------------------------------------------------------------
(* Claims about the chat-log parser (SpecChat) *)

ChatInputLines == splitlines(arg.file_content)
\* the line the next turn of the loop reads, stripped as line 117 strips it
CurLine == strip(ChatInputLines[idx + 1])
ChatTurn == pc = "chat" /\ idx < Len(ChatInputLines) /\ idx' = idx + 1
NonMatchingTurn == ChatTurn /\ CurLine # <<>> /\ ~whatsapp_line_pattern(CurLine).matched
MatchingTurn == ChatTurn /\ whatsapp_line_pattern(CurLine).matched

AppendedToLast == ret' = [ret EXCEPT ![Len(ret)].Message = @ \o <<NL>> \o CurLine]
NewUnformatted ==
    /\ Len(ret') = 1
    /\ ret'[1].Sender = <<"Unknown">>
    /\ ret'[1].Subject = <<"Unformatted Chat Line">>
    /\ ret'[1].Message = CurLine

\* C7 as claimed: every non-empty line that does not match the chat-line
\* pattern is appended, after a newline, to the body of the preceding record
\* when a record exists, and otherwise forms a new record with sender
\* "Unknown" and subject "Unformatted Chat Line" -- at every line position,
\* the first line included.
C7_NoNonMatchingLineDiscarded ==
    [][NonMatchingTurn => IF ret # <<>> THEN AppendedToLast ELSE NewUnformatted]_vars

\* C7 as amended: the same, except that a non-matching first line of the
\* content (line number 1, which never has a record before it) is skipped.
C7_NonMatchingLineKeptUnlessFirst ==
    [][NonMatchingTurn =>
          IF ret # <<>> THEN AppendedToLast
          ELSE IF idx = 0 THEN ret' = ret
          ELSE NewUnformatted]_vars

\* C7 witness: a three-line content of non-matching lines was parsed: the
\* first was skipped, the second formed an unformatted record, the third was
\* appended to it.
C7_Witness ==
    /\ pc = "chat_done"
    /\ Len(ChatInputLines) = 3
    /\ \A i \in 1..3 : strip(ChatInputLines[i]) # <<>>
                       /\ ~whatsapp_line_pattern(strip(ChatInputLines[i])).matched
    /\ Len(ret) = 1
    /\ ret[1].Subject = <<"Unformatted Chat Line">>
    /\ ret[1].Message = strip(ChatInputLines[2]) \o <<NL>> \o strip(ChatInputLines[3])

\* The four formats of the chain, in the order the code tries them.
ChatFormats == << <<"%y", "%I">>, <<"%Y", "%I">>, <<"%y", "%H">>, <<"%Y", "%H">> >>
FirstSuccessful(s) ==
    LET ok == {i \in 1..4 : strptime(s, ChatFormats[i][1], ChatFormats[i][2]).ok}
    IN  IF ok = {} THEN None
        ELSE strptime(s, ChatFormats[Min(ok)][1], ChatFormats[Min(ok)][2]).v

FirstAt(line, c) == Min({i \in 1..Len(line) : line[i] = c})

\* C8: every line matching the chat-line pattern yields exactly one record,
\* appended after the records of the earlier lines; its sender is the trimmed
\* text between the dash and the first colon, its body the trimmed remainder,
\* its time stamp what the first successful format of the four-format chain
\* gives, or absent when none parses (the record is emitted all the same); and
\* all records of one file, unformatted ones included, carry the one
\* conversation id derived from the file name.
C8_MatchingLineYieldsOneRecord ==
    /\ [](\A i \in 1..Len(ret) : pc \in {"chat", "chat_done"} =>
             ret[i].ConversationID = <<"whatsapp_chat_">> \o
                 [k \in 1..Len(arg.filename) |->
                     IF arg.filename[k] = "." THEN "_" ELSE arg.filename[k]])
    /\ [][MatchingTurn =>
            /\ Len(ret') = Len(ret) + 1
            /\ SubSeq(ret', 1, Len(ret)) = ret
            /\ LET r == ret'[Len(ret')]
                   m == whatsapp_line_pattern(CurLine)
               IN  /\ r.Sender = strip(SubSeq(CurLine, FirstAt(CurLine, DASH) + 1,
                                              FirstAt(CurLine, COLON) - 1))
                   /\ r.Message = strip(from(CurLine, FirstAt(CurLine, COLON)))
                   /\ r.Timestamp = FirstSuccessful(<<m.date_part, SP>> \o strip(m.time_part))
                   /\ r.Timestamp.kind \in {"None", "datetime"}]_vars

\* C8 witness: a parsed chat log holds a record with a parsed time stamp, a
\* record of a matching line whose time stamp did not parse, and a record whose
\* body itself holds a colon.
C8_Witness ==
    /\ pc = "chat_done"
    /\ \E i, j, k \in 1..Len(ret) :
          /\ ret[i].Timestamp.kind = "datetime"
          /\ ret[j].Timestamp = None /\ ret[j].Subject = <<"WhatsApp Chat Message">>
          /\ \E n \in 1..Len(ret[k].Message) : ret[k].Message[n] = COLON

-----------------------------------------------------------------------------
(* SpecMulti: _parse_multi_email_file run on its own, one block per step *)

PieceEmpty == <<>>
PieceBlank == <<NL, SP, NL>>
PieceFull ==
    <<NL, "Subject", COLON, SP, "First", NL, "From", COLON, SP, "Alice", NL,
      "Date", COLON, SP, "2025-01-01 10:00:00", NL, "Conversation-ID", COLON, SP, "c1", NL,
      NL, "hello", SP, "free", NL>>
PieceLower == <<"from", COLON, "Bob", SP, NL, NL, "free", SP, "money">>
PieceBadDate ==
    <<"DATE", COLON, SP, "tomorrow", NL, "Subject", COLON, SP, "Re", NL, SP, NL,
      "ok", NL, NL, "From", COLON, SP, "Mallory">>
PieceInvalidIso ==
    <<"X-Other", COLON, SP, "foo", NL, "Date", COLON, SP, "2025-13-01 10:00:00", NL, NL, "body">>
PieceNoHeaders == <<"hello", SP, "there">>
PieceRaises == <<"From", COLON, SP, "Eve", NL, RAISES, NL, NL, "body">>
PieceLongRaises == <<RAISES>> \o [i \in 1..PREVIEW_LEN |-> "x"]

EmailPieces == {PieceEmpty, PieceBlank, PieceFull, PieceLower, PieceBadDate, PieceInvalidIso,
                PieceNoHeaders, PieceRaises, PieceLongRaises}

InitMulti ==
    /\ pc = "multi"
    /\ \E ps \in SeqsOf(EmailPieces, 1, MaxBlocks), f \in ParserFileNames :
          arg = [file_content |-> join(ps, <<EMAIL_BOUNDARY_SEPARATOR>>), filename |-> f]
    /\ idx = 0
    /\ ret = <<>>
    /\ RestInit

MultiBlock ==
    /\ pc = "multi"
    /\ idx < Len(split(arg.file_content, EMAIL_BOUNDARY_SEPARATOR))
    /\ ret' = multi_block(ret, split(arg.file_content, EMAIL_BOUNDARY_SEPARATOR)[idx + 1], idx, arg.filename)
    /\ idx' = idx + 1
    /\ UNCHANGED <<pc, arg, pipelineVars, modelVars>>

MultiReturn ==
    /\ pc = "multi"
    /\ idx = Len(split(arg.file_content, EMAIL_BOUNDARY_SEPARATOR))
    /\ pc' = "multi_done"
    /\ UNCHANGED <<arg, idx, ret, pipelineVars, modelVars>>

NextMulti == MultiBlock \/ MultiReturn

SpecMulti == InitMulti /\ [][NextMulti]_vars

-----------------------------------------------------------------------------
(* Claims about the multi-email parser (SpecMulti) *)

MultiInputBlocks == split(arg.file_content, EMAIL_BOUNDARY_SEPARATOR)
NonEmptyBlock(b) == strip(b) # <<>>
\* the non-empty segments among those the loop has passed, in order
SegmentsDone == SelectSeq(SubSeq(MultiInputBlocks, 1, idx), NonEmptyBlock)
InMulti == pc \in {"multi", "multi_done"}

\* The header lines of a segment: its lines before the first blank line.
HeaderRegion(segment) ==
    LET lines == splitlines(segment)
        blank == {i \in 1..Len(lines) : strip(lines[i]) = <<>>}
    IN  IF blank = {} THEN lines ELSE SubSeq(lines, 1, Min(blank) - 1)

\* The value the segment's own header lines give for a header, or the default:
\* the text after the colon of the last header line of that name.
HeaderOf(segment, name, default) ==
    LET region == HeaderRegion(segment)
        named == {i \in 1..Len(region) : Len(region[i]) >= 2 /\ lower(region[i][1]) = name
                                          /\ region[i][2] = COLON}
    IN  IF named = {} THEN default
        ELSE [found |-> strip(SubSeq(region[Max(named)], 3, Len(region[Max(named)])))]

NoHeader == [found |-> <<>>, absent |-> TRUE]
TextOf(h, default) == IF h = NoHeader THEN default ELSE h.found

\* C9: multi-email parsing of a content with n non-empty trimmed segments
\* yields exactly n records in segment order, wherever the boundary markers
\* stand, and the sender, subject, conversation id and time stamp of each
\* parsed record are those of its own segment's header lines, a header the
\* segment lacks taking its default.
C9_OneRecordPerSegmentOwnHeaders ==
    InMulti =>
        /\ Len(ret) = Len(SegmentsDone)
        /\ \A k \in 1..Len(ret) :
              LET segment == strip(SegmentsDone[k])
                  date == HeaderOf(segment, "date", NoHeader)
              IN  /\ ret[k].Source = arg.filename
                  /\ "Error" \notin DOMAIN ret[k] =>
                        /\ ret[k].Sender = TextOf(HeaderOf(segment, "from", NoHeader), <<"Unknown">>)
                        /\ ret[k].Subject = TextOf(HeaderOf(segment, "subject", NoHeader), <<"No Subject">>)
                        /\ ret[k].ConversationID =
                              TextOf(HeaderOf(segment, "conversation-id", NoHeader), <<"N/A">>)
                        /\ ret[k].Timestamp =
                              IF date = NoHeader THEN None
                              ELSE IF strptime_iso(date.found).ok THEN strptime_iso(date.found).v
                              ELSE text(date.found)

\* C9 witness: a content that starts with a boundary marker was parsed into two
\* records; the first segment names its sender, the second has no header lines
\* and took the default sender, not the first segment's.
C9_Witness ==
    /\ pc = "multi_done"
    /\ Len(MultiInputBlocks) = 3
    /\ strip(MultiInputBlocks[1]) = <<>>
    /\ Len(ret) = 2
    /\ \A k \in 1..2 : "Error" \notin DOMAIN ret[k]
    /\ ret[1].Sender = <<"Alice">> /\ ret[1].Timestamp.kind = "datetime"
    /\ HeaderRegion(strip(MultiInputBlocks[3])) = <<PieceNoHeaders>>
    /\ ret[2].Sender = <<"Unknown">> /\ ret[2].Timestamp = None

IsPrefix(a, b) == Len(a) <= Len(b) /\ SubSeq(b, 1, Len(a)) = a

\* C10: a block of a multi-email input whose parsing fails becomes exactly one
\* error record, carrying the source name, the error description and a preview
\* of at most the first 200 characters of the block; every block before and
\* after it is parsed into a record of its own, without an error.
C10_FailingBlockIsolated ==
    InMulti =>
        /\ Len(ret) = Len(SegmentsDone)
        /\ \A k \in 1..Len(ret) :
              LET segment == strip(SegmentsDone[k])
              IN  IF block_raises(segment)
                  THEN /\ DOMAIN ret[k] = {"Source", "MessageID", "Error", "Message"}
                       /\ ret[k].Source = arg.filename
                       /\ ret[k].Error # <<>>
                       /\ IsPrefix(ret[k].Message, segment)
                       /\ charLen(ret[k].Message) = Min({PREVIEW_LEN, charLen(segment)})
                  ELSE /\ "Error" \notin DOMAIN ret[k]
                       /\ {"Sender", "Subject", "ConversationID", "Timestamp", "Message"}
                              \subseteq DOMAIN ret[k]
                       /\ ret[k].Message = _parse_single_email_block(segment).body

\* C10 witness: of three blocks the middle one, longer than the preview, failed
\* to parse and left an error record with a preview of 200 characters; the
\* blocks before and after it were parsed.
C10_Witness ==
    /\ pc = "multi_done"
    /\ Len(ret) = 3
    /\ "Error" \notin DOMAIN ret[1] /\ ret[1].Message # <<>>
    /\ "Error" \in DOMAIN ret[2]
    /\ charLen(strip(MultiInputBlocks[2])) > PREVIEW_LEN
    /\ charLen(ret[2].Message) = PREVIEW_LEN
    /\ "Error" \notin DOMAIN ret[3] /\ ret[3].Message # <<>>

-----------------------------------------------------------------------------
(* SpecDetect: the detection of generate_report and then that of
   generate_custom_test_report, run on one content *)

DetectLines == {ChatLineAlice, BoundaryLine, SystemLine, BlankLine}

InitDetect ==
    /\ pc = "detect_report"
    /\ \E ls \in SeqsOf(DetectLines, 0, MaxDetectLines) :
          arg = [file_content |-> join(ls, <<NL>>), filename |-> <<"a", ".", "txt">>]
    /\ idx = 0
    /\ ret = <<>>
    /\ RestInit

ReportDetects ==
    /\ pc = "detect_report"
    /\ ret' = Append(ret, report_parsed_messages(arg.file_content, arg.filename))
    /\ pc' = "detect_custom"
    /\ UNCHANGED <<arg, idx, pipelineVars, modelVars>>

CustomDetects ==
    /\ pc = "detect_custom"
    /\ ret' = Append(ret, custom_parsed_messages(arg.file_content, arg.filename))
    /\ pc' = "detect_done"
    /\ UNCHANGED <<arg, idx, pipelineVars, modelVars>>

NextDetect == ReportDetects \/ CustomDetects

SpecDetect == InitDetect /\ [][NextDetect]_vars

\* the lines of the content that the detection looks at
LeadingLines ==
    {i \in 1..Len(splitlines(arg.file_content)) : i <= FIRST_FEW}
HasChatLine ==
    \E i \in LeadingLines : whatsapp_line_pattern(strip(splitlines(arg.file_content)[i])).matched
HasMarker == \E i \in 1..Len(arg.file_content) : arg.file_content[i] = EMAIL_BOUNDARY_SEPARATOR
ExpectedStrategy ==
    IF HasChatLine THEN "whatsapp" ELSE IF HasMarker THEN "multi" ELSE "single"
ExpectedMessages ==
    CASE ExpectedStrategy = "whatsapp" -> _parse_whatsapp_content(arg.file_content, arg.filename)
      [] ExpectedStrategy = "multi" -> _parse_multi_email_file(arg.file_content, arg.filename)
      [] OTHER -> single_email(arg.file_content, arg.filename).parsed_messages

\* C6: the detection picks one strategy for every content and never fails:
\* chat-log parsing iff one of the first five lines matches the chat-line
\* pattern, otherwise multi-email parsing iff the content holds the boundary
\* marker, otherwise single-email parsing; the messages are those of that
\* parser alone; and generate_report and generate_custom_test_report choose
\* alike.
C6_OneStrategyChatThenMultiThenSingle ==
    pc \in {"detect_report", "detect_custom", "detect_done"} =>
        \A k \in 1..Len(ret) :
            /\ ~ret[k].raised
            /\ ret[k].strategy = ExpectedStrategy
            /\ ret[k].parsed_messages = ExpectedMessages
            /\ ret[k] = ret[1]

\* C6 witness: a content whose fifth line matches the chat-line pattern and
\* whose first line is the boundary marker was taken for a chat log by both
\* functions.
C6_Witness ==
    /\ pc = "detect_done"
    /\ Len(splitlines(arg.file_content)) >= FIRST_FEW
    /\ splitlines(arg.file_content)[1] = BoundaryLine
    /\ \A i \in 1..(FIRST_FEW - 1) : ~whatsapp_line_pattern(strip(splitlines(arg.file_content)[i])).matched
    /\ whatsapp_line_pattern(splitlines(arg.file_content)[FIRST_FEW]).matched
    /\ Len(ret) = 2
    /\ ret[1].strategy = "whatsapp" /\ ret[2].strategy = "whatsapp"

-----------------------------------------------------------------------------
(* SpecSpam: a SpamDetector is constructed and then asked to predict *)

\* the SpamDetector held in the variables
Self ==
    [ham_words |-> ham_words, spam_words |-> spam_words,
     ham_messages_count |-> ham_messages_count, spam_messages_count |-> spam_messages_count,
     all_words |-> all_words]

SelfBecomes(self) ==
    /\ ham_words' = self.ham_words
    /\ spam_words' = self.spam_words
    /\ ham_messages_count' = self.ham_messages_count
    /\ spam_messages_count' = self.spam_messages_count
    /\ all_words' = self.all_words

HamFiles ==
    {Absent,
     [exists |-> TRUE, raises |-> FALSE,
      lines |-> <<<<"see", SP, "you", SP, "at", SP, "the", SP, "meeting", NL>>, <<NL>>,
                  <<"hello", SP, "you", NL>>>>],
     [exists |-> TRUE, raises |-> FALSE,
      lines |-> <<<<"you", SP, "now", NL>>, <<"money", SP, "hello", SP, "now", NL>>,
                  <<"free", SP, "money", NL>>>>],
     [exists |-> TRUE, raises |-> FALSE, lines |-> <<>>],
     [exists |-> TRUE, raises |-> TRUE, lines |-> <<>>],
     [exists |-> TRUE, raises |-> TRUE, lines |-> <<<<"hello", SP, "you", NL>>>>]}
SpamFiles ==
    {Absent,
     [exists |-> TRUE, raises |-> FALSE,
      lines |-> <<<<"free", SP, "money", SP, "now", NL>>, <<"win", SP, "free", SP, "money">>>>],
     [exists |-> TRUE, raises |-> FALSE, lines |-> <<<<"now", NL>>, <<"money", SP, "you", NL>>>>],
     [exists |-> TRUE, raises |-> FALSE, lines |-> <<>>],
     [exists |-> TRUE, raises |-> TRUE, lines |-> <<<<"free", SP, "money", SP, "now", NL>>>>]}

SpamMessages ==
    {<<"free">>, <<"free", SP, "money">>, <<"hello", SP, "you">>, <<"meeting", SP, "tomorrow">>,
     <<"win">>, <<"win", SP, "a", SP, "meeting", "!">>, <<SP>>, <<"10:00">>}

InitSpam ==
    /\ pc = "spam_init"
    /\ \E h \in HamFiles, sp \in SpamFiles : arg = [ham_file |-> h, spam_file |-> sp]
    /\ idx = 0
    /\ ret = <<>>
    /\ RestInit

\* SpamDetector.__init__, line 28
LoadAndTrain ==
    /\ pc = "spam_init"
    /\ SelfBecomes(_load_and_train(Self, arg.ham_file, arg.spam_file))
    /\ pc' = "spam"
    /\ UNCHANGED <<arg, idx, ret, pipelineVars>>

\* What a call of predict is remembered by: its argument, what it returned, and
\* the two posteriors of lines 167-168 when it got that far.
predict_call(message, p) ==
    IF p.computed
    THEN [message |-> message, result |-> p.result, computed |-> TRUE,
          posterior_ham |-> p.posterior_ham, posterior_spam |-> p.posterior_spam]
    ELSE [message |-> message, result |-> p.result, computed |-> FALSE]

Predict(message) ==
    /\ pc = "spam"
    /\ Len(ret) < MaxPredicts
    /\ LET p == predict(Self, message)
       IN  /\ SelfBecomes(p.self)
           /\ ret' = Append(ret, predict_call(message, p))
    /\ UNCHANGED <<pc, arg, idx, pipelineVars>>

NextSpam == LoadAndTrain \/ \E message \in SpamMessages : Predict(message)

SpecSpam == InitSpam /\ [][NextSpam]_vars

PredictStep == pc = "spam" /\ Len(ret') = Len(ret) + 1

\* C3 as claimed: no predict call changes the trained model: the ham and spam
\* word counts (keys and values), both message counts and the vocabulary are
\* the same before and after every predict call, whatever the message.
C3_PredictLeavesModelUnchanged ==
    [][PredictStep => UNCHANGED modelVars]_vars

\* The naive Bayes comparison in exact arithmetic.  With n the number of tokens,
\* V = max(vocabulary size, 1), H and S the total word counts of ham and spam:
\*   prior_spam * prod (spam[w] + 1) / (S + V)  >  prior_ham * prod (ham[w] + 1) / (H + V)
\* holds exactly when, both sides multiplied by total * (S + V)^n * (H + V)^n,
\*   spam_count * prod (spam[w] + 1) * (H + V)^n  >  ham_count * prod (ham[w] + 1) * (S + V)^n.
count_of(counts, word) == IF word \in DOMAIN counts THEN counts[word] ELSE 0
RECURSIVE count_product(_, _)
count_product(counts, words) ==
    IF words = <<>> THEN 1 ELSE (count_of(counts, Head(words)) + 1) * count_product(counts, Tail(words))
RECURSIVE power(_, _)
power(base, n) == IF n = 0 THEN 1 ELSE base * power(base, n - 1)
SmoothedVocabulary == IF all_words = {} THEN 1 ELSE Cardinality(all_words)
SpamWeight(words) ==
    spam_messages_count * count_product(spam_words, words)
        * power(sum_values(ham_words) + SmoothedVocabulary, Len(words))
HamWeight(words) ==
    ham_messages_count * count_product(ham_words, words)
        * power(sum_values(spam_words) + SmoothedVocabulary, Len(words))
ExactlySpam(words) ==
    /\ words # <<>>
    /\ ham_messages_count + spam_messages_count > 0
    /\ SpamWeight(words) > HamWeight(words)

\* C13 as claimed: predict answers SPAM exactly when the prior of spam times the
\* product of the smoothed spam probabilities of the message's tokens is
\* strictly greater than the same for ham; a tie, a message without tokens
\* and a model without training messages give HAM.
C13_PredictComparesPosteriors ==
    pc = "spam" => \A i \in 1..Len(ret) : ret[i].result = ExactlySpam(_tokenize(ret[i].message))

\* The model after training on the built-in ham example "hello how are you"
\* and the built-in spam example "buy now free money", and nothing else.
DefaultModel ==
    [ham_words |-> [hello |-> 1, how |-> 1, are |-> 1, you |-> 1],
     spam_words |-> [buy |-> 1, now |-> 1, free |-> 1, money |-> 1],
     ham_messages_count |-> 1, spam_messages_count |-> 1,
     all_words |-> {"hello", "how", "are", "you", "buy", "now", "free", "money"}]
NoCorpus == ~arg.ham_file.exists /\ ~arg.spam_file.exists
ReadingRaises ==
    \/ arg.ham_file.exists /\ arg.ham_file.raises
    \/ arg.spam_file.exists /\ arg.spam_file.raises
Constructed == pc = "spam" /\ ret = <<>>

\* C15: when neither corpus file is there, or when reading the corpora raises
\* part-way, the constructed model is exactly the model of the default
\* training: ham count 1, spam count 1, the word counts and the vocabulary of
\* the two built-in examples and nothing left over from the lines read before
\* the failure.
C15_FallbackIsExactlyDefaultTraining ==
    (Constructed /\ (NoCorpus \/ ReadingRaises)) => Self = DefaultModel
\* A model constructed after the spam corpus raised part-way, both corpora
\* having been trained on up to there.
C15_Witness ==
    /\ Constructed
    /\ arg.ham_file.exists /\ ~arg.ham_file.raises /\ arg.ham_file.lines # <<>>
    /\ arg.spam_file.exists /\ arg.spam_file.raises /\ arg.spam_file.lines # <<>>
    /\ Self = DefaultModel

\* A word whose smoothed probability in spam exceeds the one in ham:
\*   (spam[w] + 1) / (S + V)  >  (ham[w] + 1) / (H + V)
SpamIndicative(word) ==
    /\ _tokenize(<<word>>) = <<word>>
    /\ (count_of(spam_words, word) + 1) * (sum_values(ham_words) + SmoothedVocabulary)
          > (count_of(ham_words, word) + 1) * (sum_values(spam_words) + SmoothedVocabulary)
WithWordAppended(longer, shorter) ==
    /\ Len(longer) = Len(shorter) + 2
    /\ SubSeq(longer, 1, Len(shorter)) = shorter
    /\ longer[Len(shorter) + 1] = SP

\* C14 as claimed: for a trained model, a message m and a spam-indicative word
\* w, the spam posterior that predict computes for m with w appended is not
\* lower than the spam posterior it computes for m alone.
C14_SpamWordNeverLowersSpamPosterior ==
    pc = "spam" =>
        \A i, j \in 1..Len(ret) :
            (/\ ret[i].computed /\ ret[j].computed
             /\ WithWordAppended(ret[j].message, ret[i].message)
             /\ SpamIndicative(ret[j].message[Len(ret[j].message)]))
                => ~float_gt(ret[i].posterior_spam, ret[j].posterior_spam)

-----------------------------------------------------------------------------
(* Spec: generate_report and generate_custom_test_report, one file per step *)

FileChat == join(<<ChatLineAlice, SystemLine, ChatLineNoSpaceAm>>, <<NL>>)
FileMulti == join(<<PieceFull, PieceRaises, PieceBadDate>>, <<EMAIL_BOUNDARY_SEPARATOR>>)
FileSingle == PieceLower
FileSingleBadDate == PieceBadDate
FileSingleRaises == PieceRaises
FileEmpty == <<>>
SampleContents == {FileChat, FileMulti, FileSingle, FileSingleBadDate, FileSingleRaises, FileEmpty}

Unreadable(name) == [name |-> name, readable |-> FALSE, content |-> <<>>]
Readable(name, content) == [name |-> name, readable |-> TRUE, content |-> content]
FilesNamed(name) == {Unreadable(name)} \cup {Readable(name, c) : c \in SampleContents}

\* os.listdir: any order of files of distinct names
Listings ==
    {fs \in UNION {[1..n -> UNION {FilesNamed(f) : f \in FileNames}] : n \in 0..MaxFiles} :
        \A i, j \in 1..Len(fs) : i # j => fs[i].name # fs[j].name}

LogContents == {<<"free", SP, "money", NL, SP, NL, "hello", SP, "you", NL>>, <<"Hi", NL>>}
LogFiles(name) == {Unreadable(name)} \cup {Readable(name, c) : c \in LogContents}

Clock == {datetime(2025, 1, 1, 10, 0, 0), datetime(2025, 1, 1, 10, 5, 0)}

NoTraining == [ham_file |-> Absent, spam_file |-> Absent]
Trainings ==
    {NoTraining,
     [ham_file |-> [exists |-> TRUE, raises |-> FALSE, lines |-> <<<<"hello", SP, "you", NL>>>>],
      spam_file |-> [exists |-> TRUE, raises |-> FALSE, lines |-> <<<<"free", SP, "money", NL>>>>]]}

ReportCalls ==
    {[source |-> "sample_emails", input_dir_exists |-> TRUE, files |-> fs, training |-> t] :
        fs \in Listings, t \in Trainings}
    \cup {[source |-> "sample_emails", input_dir_exists |-> FALSE, files |-> <<>>, training |-> NoTraining]}
    \cup {[source |-> "emails", input_dir_exists |-> TRUE, files |-> <<>>, training |-> NoTraining]}
    \cup {[source |-> "digitallogssample", input_dir_exists |-> TRUE, files |-> <<h, sp>>,
           training |-> NoTraining] :
             h \in LogFiles(<<"ham_messages", ".", "txt">>), sp \in LogFiles(<<"spam_messages", ".", "txt">>)}

CustomCalls ==
    {[file_exists |-> TRUE, file |-> f, training |-> t] :
        f \in FilesNamed(<<"a", ".", "txt">>), t \in Trainings}
    \cup {[file_exists |-> FALSE, file |-> Unreadable(<<"a", ".", "txt">>), training |-> NoTraining]}

\* What main.py hands to generate_report_from_custom_input: a message that is
\* not blank and has no blank line, a sender and a conversation id that are
\* None or not empty, one of the four message types.
InputMessages ==
    {ChatLineAlice,
     <<"1/1/25", COMMA, SP, "10:00", SP, "AM", SP, DASH, SP, "Alice", COLON>>,
     SystemLine,
     <<"From", COLON, SP, "Bob", NL, "Date", COLON, SP, "2025-01-01 10:05:00", NL, "free", SP, "money">>,
     <<"Subject", COLON, SP, "tomorrow">>,
     <<"free", SP, "money", NL, "now">>,
     <<"1/1/25", COMMA, "10:00", DASH, "Alice", COLON, "hello", NL,
       "1/1/25", COMMA, "10:05", DASH, "Bob", COLON, "money">>,
     <<"From", COLON, SP, "Eve", NL, RAISES>>}
InputCalls ==
    {[message |-> m, sender |-> sd, conversation_id |-> c, message_type |-> ty, now |-> now,
      training |-> t] :
        m \in InputMessages, sd \in {None, text(<<"Mallory">>)}, c \in {None, text(<<"c1">>)},
        ty \in {"WhatsApp", "Email", "SMS", "Other"}, now \in Clock, t \in Trainings}

Init ==
    /\ \/ pc = "generate_report" /\ arg \in ReportCalls
       \/ pc = "generate_custom_test_report" /\ arg \in CustomCalls
       \/ pc = "generate_report_from_custom_input" /\ arg \in InputCalls
    /\ idx = 0
    /\ ret = <<>>
    /\ RestInit

is_txt_file(f) == endswith_txt(f.name)

\* generate_report, lines 219-247: the list of inputs, the analyzers, results
ReportStart ==
    /\ pc = "generate_report"
    /\ IF arg.source = "digitallogssample"
       THEN /\ input_items' = [i \in 1..2 |-> [tuple |-> TRUE, file |-> arg.files[i]]]
            /\ pc' = "report_loop"
            /\ SelfBecomes(_load_and_train(EmptyDetector, arg.training.ham_file, arg.training.spam_file))
       ELSE IF arg.source = "sample_emails" /\ arg.input_dir_exists
       THEN /\ input_items' = [i \in 1..Len(SelectSeq(arg.files, is_txt_file)) |->
                                  [tuple |-> FALSE, file |-> SelectSeq(arg.files, is_txt_file)[i]]]
            /\ pc' = "report_loop"
            /\ SelfBecomes(_load_and_train(EmptyDetector, arg.training.ham_file, arg.training.spam_file))
       ELSE /\ pc' = "returned"
            /\ UNCHANGED <<input_items, modelVars>>
    /\ results' = <<>>
    /\ UNCHANGED <<fileIdx, full_content, calls, summary, harnessVars>>

PipelineState ==
    [self |-> Self, results |-> results, calls |-> calls, full_content |-> full_content, raised |-> FALSE]

PipelineBecomes(st) ==
    /\ SelfBecomes(st.self)
    /\ results' = st.results
    /\ calls' = st.calls
    /\ full_content' = st.full_content

FileBecomes(st, next) ==
    /\ PipelineBecomes(st)
    /\ pc' = IF st.raised THEN "raised" ELSE next

\* One turn of the loop of generate_report over input_items (lines 249-333).
ReportFile ==
    /\ pc = "report_loop"
    /\ fileIdx < Len(input_items)
    /\ \E now \in Clock :
          FileBecomes(IF input_items[fileIdx + 1].tuple
                      THEN log_file(PipelineState, input_items[fileIdx + 1].file, now)
                      ELSE IF input_items[fileIdx + 1].file.readable
                      THEN file_read(report_parsed_messages(input_items[fileIdx + 1].file.content,
                                                            input_items[fileIdx + 1].file.name),
                                     PipelineState, input_items[fileIdx + 1].file)
                      ELSE file_unread(PipelineState, input_items[fileIdx + 1].file),
                      "report_loop")
    /\ fileIdx' = fileIdx + 1
    /\ UNCHANGED <<input_items, summary, harnessVars>>

\* After the loop (lines 335-342): time stamps to text, then the metrics.
ReportFinish ==
    /\ pc = "report_loop"
    /\ fileIdx = Len(input_items)
    /\ results' = timestamps_to_text(results)
    /\ summary' = [reached |-> TRUE,
                   content |-> calculate_content_metrics(timestamps_to_text(results)),
                   behavior |-> calculate_engagement_metrics(timestamps_to_text(results))]
    /\ pc' = "report_done"
    /\ UNCHANGED <<input_items, fileIdx, full_content, calls, modelVars, harnessVars>>

FreshState(self) ==
    [self |-> self, results |-> <<>>, calls |-> calls, full_content |-> Unbound, raised |-> FALSE]

\* generate_custom_test_report, lines 397-457: the analyzers, the test of
\* os.path.exists, the try block and its except clause.
CustomFile ==
    /\ pc = "generate_custom_test_report"
    /\ IF ~arg.file_exists
       THEN /\ pc' = "returned"
            /\ SelfBecomes(_load_and_train(EmptyDetector, arg.training.ham_file, arg.training.spam_file))
            /\ UNCHANGED <<results, calls, full_content>>
       ELSE FileBecomes(IF arg.file.readable
                        THEN file_read(custom_parsed_messages(arg.file.content, arg.file.name),
                                       FreshState(_load_and_train(EmptyDetector, arg.training.ham_file,
                                                                  arg.training.spam_file)),
                                       arg.file)
                        ELSE file_unread(FreshState(_load_and_train(EmptyDetector, arg.training.ham_file,
                                                                    arg.training.spam_file)),
                                         arg.file),
                        "custom_loop_done")
    /\ input_items' = <<[tuple |-> FALSE, file |-> arg.file]>>
    /\ fileIdx' = IF arg.file_exists THEN 1 ELSE 0
    /\ UNCHANGED <<summary, harnessVars>>

\* generate_custom_test_report, lines 459-466
CustomFinish ==
    /\ pc = "custom_loop_done"
    /\ results' = timestamps_to_text(results)
    /\ summary' = [reached |-> TRUE,
                   content |-> calculate_content_metrics(timestamps_to_text(results)),
                   behavior |-> calculate_engagement_metrics(timestamps_to_text(results))]
    /\ pc' = "custom_done"
    /\ UNCHANGED <<input_items, fileIdx, full_content, calls, modelVars, harnessVars>>

InputBecomes(a) ==
    /\ SelfBecomes(a.self)
    /\ results' = <<a.result>>
    /\ calls' = Append(calls, [Message |-> a.result.Message])
    /\ summary' = [reached |-> TRUE,
                   content |-> calculate_content_metrics(<<a.result>>),
                   behavior |-> calculate_engagement_metrics(<<a.result>>)]
    /\ pc' = "input_done"

InputAnalysed(self, meta) ==
    IF meta.raised
    THEN /\ SelfBecomes(self)
         /\ pc' = "raised"
         /\ UNCHANGED <<results, calls, summary>>
    ELSE InputBecomes(input_analysis(self, meta, arg.message_type))

\* generate_report_from_custom_input, lines 514-641
InputReport ==
    /\ pc = "generate_report_from_custom_input"
    /\ InputAnalysed(_load_and_train(EmptyDetector, arg.training.ham_file, arg.training.spam_file),
                     input_metadata(arg.message, arg.sender, arg.conversation_id, arg.message_type,
                                    arg.now))
    /\ UNCHANGED <<input_items, fileIdx, full_content, harnessVars>>

Next == ReportStart \/ ReportFile \/ ReportFinish \/ CustomFile \/ CustomFinish \/ InputReport

Spec == Init /\ [][Next]_vars

-----------------------------------------------------------------------------
(* Claims about the two report functions (Spec) *)

\* the file the next step of a report function works on
InFileStep ==
    \/ pc = "report_loop" /\ fileIdx < Len(input_items) /\ ~input_items[fileIdx + 1].tuple
    \/ pc = "generate_custom_test_report" /\ arg.file_exists
CurrentFile == IF pc = "report_loop" THEN input_items[fileIdx + 1].file ELSE arg.file
\* reading the file fails, or parsing what was read does
FileFails ==
    \/ ~CurrentFile.readable
    \/ report_parsed_messages(CurrentFile.content, CurrentFile.name).raised
FailingFileStep == InFileStep /\ FileFails /\ fileIdx' = fileIdx + 1
ResultsBefore == IF pc = "report_loop" THEN results ELSE <<>>

\* C1 as claimed: a failure inside the per-file try block of generate_report or
\* generate_custom_test_report, for a file at any position of the batch, the
\* first included, never aborts the batch: the step adds exactly one error
\* record, whose Source is that file and whose content preview is taken from
\* that file's content, and the function goes on to the remaining files and to
\* the metrics.
C1_FileFailureNeverAbortsBatch ==
    [][FailingFileStep =>
          /\ pc' # "raised"
          /\ Len(results') = Len(ResultsBefore) + 1
          /\ SubSeq(results', 1, Len(ResultsBefore)) = ResultsBefore
          /\ has_error(results'[Len(results')])
          /\ results'[Len(results')].Source = CurrentFile.name
          /\ IsPrefix(results'[Len(results')].Message, CurrentFile.content)]_vars

AnalysisFields == {"Spam", "Sentiment", "StyleScore", "Formality"}

ParsesMessageFiles ==
    \/ pc \in {"custom_loop_done", "custom_done"}
    \/ pc \in {"report_loop", "report_done"} /\ arg.source = "sample_emails"
Ingested == ParsesMessageFiles /\ pc \in {"custom_loop_done", "report_loop"}

\* C4 as claimed: after ingestion the time stamp of every record is absent
\* (None) or one parsed point in time, never a value of another kind: a Date
\* header or a chat date and time that cannot be parsed leaves it absent.
C4_TimestampAbsentOrParsed ==
    Ingested =>
        \A i \in 1..Len(results) :
            "Timestamp" \in DOMAIN results[i] => results[i].Timestamp.kind \in {"None", "datetime"}

\* C5 as claimed: in the batch of one report run over distinctly named files
\* of any mix of the three formats, every record has a message id and no two
\* records have the same one.
C5_MessageIdsPresentAndUnique ==
    ParsesMessageFiles =>
        /\ \A i \in 1..Len(results) : "MessageID" \in DOMAIN results[i]
        /\ \A i, j \in 1..Len(results) :
              (i # j /\ "MessageID" \in DOMAIN results[i] /\ "MessageID" \in DOMAIN results[j])
                  => results[i].MessageID # results[j].MessageID
\* C11 as claimed: a record whose body is empty after trimming is excluded from
\* analysis by generate_report, generate_custom_test_report and
\* generate_report_from_custom_input alike: no analyzer is ever called on
\* such a body, and Total Messages counts only the records whose body is not
\* blank.
HasBody(entry) == "Message" \in DOMAIN entry /\ strip(entry.Message) # <<>>
C11_BlankBodiesExcluded ==
    /\ \A i \in 1..Len(calls) : HasBody(calls[i])
    /\ summary.reached =>
          summary.content.TotalMessages
              = Cardinality({i \in 1..Len(results) : is_valid(results[i]) /\ HasBody(results[i])})

-----------------------------------------------------------------------------
(* SpecMetrics: calculate_content_metrics and calculate_engagement_metrics on a
   list of result records, called one after the other as every entry point of
   the report generator calls them *)

AtT0 == text(<<"2025-01-01 10:00:00">>)
ErrorRecord ==
    [Source |-> <<"a.txt">>, Error |-> <<"Exception">>, Sender |-> <<"Eve">>,
     ConversationID |-> <<"c1">>, Timestamp |-> text(<<"2025-01-01 10:30:00">>),
     Spam |-> "SPAM", Sentiment |-> "negative", StyleScore |-> 1000, Formality |-> "informal"]
MetricRecords ==
    {ErrorRecord,
     [Sender |-> <<"Alice">>, ConversationID |-> <<"c1">>, Timestamp |-> AtT0,
      Spam |-> "SPAM", Sentiment |-> "negative", StyleScore |-> 3000, Formality |-> "informal"],
     [Sender |-> <<"Bob">>, ConversationID |-> <<"c1">>, Timestamp |-> datetime(2025, 1, 1, 10, 5, 0),
      Spam |-> "HAM", Sentiment |-> "neutral", StyleScore |-> 5000, Formality |-> "neutral"],
     [Sender |-> <<"Alice">>, ConversationID |-> <<"c1">>, Timestamp |-> text(<<"2025-01-01 10:10:00">>),
      Spam |-> "HAM", Sentiment |-> "positive", StyleScore |-> 3999, Formality |-> "Informal"],
     [Sender |-> <<"Carol">>, ConversationID |-> <<"c1">>, Timestamp |-> text(<<"2025-01-01 12:10:00">>),
      Spam |-> "HAM", Sentiment |-> "positive", StyleScore |-> 8000, Formality |-> "formal"],
     [Sender |-> <<"Bob">>, ConversationID |-> <<"c2">>,
      Timestamp |-> text(<<"1/1/25", SP, "10:00", SP, "AM">>),
      Spam |-> "HAM", Sentiment |-> "neutral", StyleScore |-> 4000, Formality |-> "formal"],
     [Sender |-> <<"Dave">>, ConversationID |-> <<"c2">>, Timestamp |-> text(<<"2025-01-02 10:00:01">>),
      Spam |-> "SPAM", Sentiment |-> "neutral", StyleScore |-> 4001, Formality |-> "informal"],
     [Sender |-> <<"Dave">>, Timestamp |-> text(<<"2025-01-01 10:00:01">>),
      Sentiment |-> "positive", StyleScore |-> 10000, Formality |-> "formal"],
     [ConversationID |-> <<"c1">>, Timestamp |-> text(<<"tomorrow">>), Spam |-> "HAM",
      Formality |-> "neutral"]}

\* Five records with three gaps: 86401 s in c2, 300 s and 300 s in c1.
LongBatch ==
    <<[Sender |-> <<"Dave">>, ConversationID |-> <<"c2">>, Timestamp |-> text(<<"2025-01-02 10:00:01">>),
       Spam |-> "SPAM", Sentiment |-> "neutral", StyleScore |-> 4001, Formality |-> "informal"],
      [Sender |-> <<"Bob">>, ConversationID |-> <<"c2">>,
       Timestamp |-> text(<<"1/1/25", SP, "10:00", SP, "AM">>),
       Spam |-> "HAM", Sentiment |-> "neutral", StyleScore |-> 4000, Formality |-> "formal"],
      [Sender |-> <<"Alice">>, ConversationID |-> <<"c1">>, Timestamp |-> text(<<"2025-01-01 10:10:00">>),
       Spam |-> "HAM", Sentiment |-> "positive", StyleScore |-> 3999, Formality |-> "Informal"],
      [Sender |-> <<"Alice">>, ConversationID |-> <<"c1">>, Timestamp |-> AtT0,
       Spam |-> "SPAM", Sentiment |-> "negative", StyleScore |-> 3000, Formality |-> "informal"],
      [Sender |-> <<"Bob">>, ConversationID |-> <<"c1">>, Timestamp |-> datetime(2025, 1, 1, 10, 5, 0),
       Spam |-> "HAM", Sentiment |-> "neutral", StyleScore |-> 5000, Formality |-> "neutral"]>>

\* Four records whose style scores have the mean 39.995: added from left to
\* right as doubles, 22.01 + 93.25 + 10.33 + 34.39 and 93.25 + 10.33 + 34.39 + 22.01
\* differ in the last bit.
Scored(sender, style_score) ==
    [Sender |-> sender, Spam |-> "HAM", Sentiment |-> "neutral", StyleScore |-> style_score,
     Formality |-> "neutral"]
TieBatch ==
    <<Scored(<<"Alice">>, 2201), Scored(<<"Bob">>, 9325), Scored(<<"Carol">>, 1033),
      Scored(<<"Dave">>, 3439)>>

\* Two e-mails of one conversation dated in the year 999, five minutes apart,
\* as _parse_single_email_block reads them from "Date: 0999-01-01 10:00:00"
\* and "Date: 0999-01-01 10:05:00".
EarlyBatch ==
    <<[Sender |-> <<"Alice">>, ConversationID |-> <<"c1">>, Timestamp |-> datetime(999, 1, 1, 10, 0, 0),
       Spam |-> "HAM", Sentiment |-> "neutral", StyleScore |-> 5000, Formality |-> "neutral"],
      [Sender |-> <<"Bob">>, ConversationID |-> <<"c1">>, Timestamp |-> datetime(999, 1, 1, 10, 5, 0),
       Spam |-> "HAM", Sentiment |-> "neutral", StyleScore |-> 5000, Formality |-> "neutral"]>>

MetricBatches == SeqsOf(MetricRecords, 0, MaxRecords) \cup {LongBatch, TieBatch, EarlyBatch}

InitMetrics ==
    /\ pc = "metrics"
    /\ \E batch \in MetricBatches : arg = [results |-> batch]
    /\ idx = 0
    /\ ret = <<>>
    /\ RestInit

\* metrics_calculator.py lines 13-58
ContentMetrics ==
    /\ pc = "metrics"
    /\ ret' = [content |-> calculate_content_metrics(arg.results)]
    /\ pc' = "content_metrics_done"
    /\ UNCHANGED <<arg, idx, pipelineVars, modelVars>>

\* metrics_calculator.py lines 60-150
EngagementMetrics ==
    /\ pc = "content_metrics_done"
    /\ ret' = [content |-> ret.content,
               behavior |-> calculate_engagement_metrics(arg.results)]
    /\ pc' = "metrics_done"
    /\ UNCHANGED <<arg, idx, pipelineVars, modelVars>>

NextMetrics == ContentMetrics \/ EngagementMetrics

SpecMetrics == InitMetrics /\ [][NextMetrics]_vars

\* C12 as claimed: for a batch that is empty or holds only error records the
\* content metrics are Total Messages 0, every spam, sentiment and formality
\* tally 0 and average style score 0.0, and the engagement metrics are an
\* empty sender table, an absent average response gap and an empty list of
\* suggestions.
OnlyErrors(batch) == \A i \in 1..Len(batch) : has_error(batch[i])
ZeroContent ==
    [TotalMessages |-> 0, SpamCounts |-> [SPAM |-> 0, HAM |-> 0],
     SentimentCounts |-> [positive |-> 0, neutral |-> 0, negative |-> 0],
     AverageStyleScore |-> 0,
     FormalityCounts |-> [formal |-> 0, informal |-> 0, neutral |-> 0]]
C12_EmptyBatchGivesDefaultMetrics ==
    (pc = "metrics_done" /\ OnlyErrors(arg.results)) =>
        /\ ret.content = ZeroContent
        /\ DOMAIN ret.behavior.TopSenders = {}
        /\ ret.behavior.AverageResponseTime = None
        /\ ret.behavior.Suggestions = <<>>

\* The records of a batch that count for the response gaps: not an error
\* record, with a conversation id, and with a time stamp that is a datetime
\* or spells one in one of the five formats.
Timestamped(batch) ==
    {i \in 1..Len(batch) :
        /\ ~has_error(batch[i])
        /\ "ConversationID" \in DOMAIN batch[i] /\ batch[i].ConversationID # <<>>
        /\ "Timestamp" \in DOMAIN batch[i]
        /\ time_obj(batch[i].Timestamp).kind = "datetime"}
Conversations(batch) == {batch[i].ConversationID : i \in Timestamped(batch)}
TimesIn(batch, convo_id) ==
    {time_obj(batch[i].Timestamp) : i \in {j \in Timestamped(batch) : batch[j].ConversationID = convo_id}}
\* The seconds from the earliest to the latest of some times.
Span(times) ==
    total_seconds(CHOOSE a \in times : \A b \in times : total_seconds(a, b) >= 0,
                  CHOOSE a \in times : \A b \in times : total_seconds(b, a) >= 0)
\* The consecutive gaps of a conversation's sorted times add up to the time
\* from its earliest to its latest record.
RECURSIVE GapSum(_, _)
GapSum(batch, convo_ids) ==
    IF convo_ids = {} THEN 0
    ELSE Span(TimesIn(batch, CHOOSE c \in convo_ids : TRUE))
         + GapSum(batch, convo_ids \ {CHOOSE c \in convo_ids : TRUE})
\* One gap per timestamped record but the first of its conversation.
GapCount(batch) == Cardinality(Timestamped(batch)) - Cardinality(Conversations(batch))
AverageGap == ret.behavior.AverageResponseTime

\* C18 as claimed: the average response gap is the arithmetic mean of all the
\* consecutive gaps, in seconds, of the conversations' sorted time stamps,
\* pooled over the conversations; it is absent exactly when no conversation
\* has two timestamped records, and it is never negative.
C18_AverageGapIsExactMean ==
    pc = "metrics_done" =>
        /\ AverageGap = None <=> GapCount(arg.results) = 0
        /\ GapCount(arg.results) > 0 =>
              /\ AverageGap.hundredths * GapCount(arg.results)
                    = 100 * GapSum(arg.results, Conversations(arg.results))
              /\ AverageGap.hundredths >= 0

\* C18, amended: the average response gap is that arithmetic mean rounded to
\* two decimals (within half a hundredth of a second of the mean); it is
\* absent exactly when no conversation has two timestamped records, and it
\* is never negative.
C18_AverageGapIsRoundedMean ==
    pc = "metrics_done" =>
        /\ AverageGap = None <=> GapCount(arg.results) = 0
        /\ GapCount(arg.results) > 0 =>
              /\ 2 * (AverageGap.hundredths * GapCount(arg.results)
                        - 100 * GapSum(arg.results, Conversations(arg.results))) <= GapCount(arg.results)
              /\ 2 * (100 * GapSum(arg.results, Conversations(arg.results))
                        - AverageGap.hundredths * GapCount(arg.results)) <= GapCount(arg.results)
              /\ AverageGap.hundredths >= 0
\* Gaps of 86401, 300 and 300 seconds, taken from records that are not in the
\* order of their times: the mean 29000.333... is reported as 29000.33.
C18_Witness ==
    /\ pc = "metrics_done"
    /\ arg.results = LongBatch
    /\ AverageGap = float_of(2900033)

\* The non-error records of a batch that carry a style score, the sum of
\* their scores (in hundredths), and the records of one formality.
ScoredRecords(batch) == {i \in 1..Len(batch) : ~has_error(batch[i]) /\ "StyleScore" \in DOMAIN batch[i]}
RECURSIVE ScoreSum(_, _)
ScoreSum(batch, n) ==
    IF n = 0 THEN 0
    ELSE ScoreSum(batch, n - 1) + (IF n \in ScoredRecords(batch) THEN batch[n].StyleScore ELSE 0)
OfFormality(batch, label) ==
    {i \in 1..Len(batch) :
        /\ ~has_error(batch[i])
        /\ "Formality" \in DOMAIN batch[i]
        /\ lower(batch[i].Formality) = label}
ApplicableSuggestions(clarity, formality, promptness) ==
    (IF clarity THEN <<CLARITY>> ELSE <<>>)
    \o (IF formality THEN <<FORMAL_PHRASING>> ELSE <<>>)
    \o (IF promptness THEN <<PROMPTNESS>> ELSE <<>>)

\* C19 as claimed: for a batch with at least one scored record, the suggestions are
\* exactly the applicable ones of three rules, in the order clarity,
\* formality, promptness: clarity iff the average style score of the
\* non-error records is below 40; formality iff formal + informal > 0 and
\* informal > 1.5 * formal; promptness iff the average response gap is
\* present and above 3600 seconds.
C19_SuggestionsFollowTheThreeRules ==
    (pc = "metrics_done" /\ ScoredRecords(arg.results) # {}) =>
        ret.behavior.Suggestions =
            ApplicableSuggestions(
                ScoreSum(arg.results, Len(arg.results)) < 4000 * Cardinality(ScoredRecords(arg.results)),
                /\ Cardinality(OfFormality(arg.results, "formal"))
                     + Cardinality(OfFormality(arg.results, "informal")) > 0
                /\ 2 * Cardinality(OfFormality(arg.results, "informal"))
                     > 3 * Cardinality(OfFormality(arg.results, "formal")),
                AverageGap # None /\ AverageGap.hundredths > 360000)

\* The clarity rule on the average rounded to two decimals: below 39.995 the
\* rounded average is below 40, above 39.995 it is at least 40, and with no
\* scored record the average is 0.0.
ClarityOnRoundedAverage(batch, clarity) ==
    IF ScoredRecords(batch) = {} THEN clarity
    ELSE /\ 2 * ScoreSum(batch, Len(batch)) < 7999 * Cardinality(ScoredRecords(batch)) => clarity
         /\ 2 * ScoreSum(batch, Len(batch)) > 7999 * Cardinality(ScoredRecords(batch)) => ~clarity

\* C19, amended: the suggestions are exactly the applicable ones of three
\* rules, in the order clarity, formality, promptness: clarity iff the average
\* style score of the non-error records, rounded to two decimals and 0.0 when
\* no record has a score, is below 40; formality iff formal + informal > 0
\* and informal > 1.5 * formal; promptness iff the average response gap is
\* present and above 3600 seconds.
C19_SuggestionsFollowTheRoundedAverage ==
    pc = "metrics_done" =>
        \E clarity \in BOOLEAN :
            /\ ClarityOnRoundedAverage(arg.results, clarity)
            /\ ret.behavior.Suggestions =
                  ApplicableSuggestions(
                      clarity,
                      /\ Cardinality(OfFormality(arg.results, "formal"))
                           + Cardinality(OfFormality(arg.results, "informal")) > 0
                      /\ 2 * Cardinality(OfFormality(arg.results, "informal"))
                           > 3 * Cardinality(OfFormality(arg.results, "formal")),
                      AverageGap # None /\ AverageGap.hundredths > 360000)
\* Scores whose mean lies between 39.995 and 40 (30, 39.99 and 50 give
\* 39.9966...): the average is rounded to 40.0 and clarity is not suggested,
\* while the formality suggestion is.
C19_Witness ==
    /\ pc = "metrics_done"
    /\ ScoredRecords(arg.results) # {}
    /\ ScoreSum(arg.results, Len(arg.results)) < 4000 * Cardinality(ScoredRecords(arg.results))
    /\ 2 * ScoreSum(arg.results, Len(arg.results)) > 7999 * Cardinality(ScoredRecords(arg.results))
    /\ ret.behavior.Suggestions = <<FORMAL_PHRASING>>

-----------------------------------------------------------------------------
(* SpecAnalyze: the sentiment scorer, the style scorer and the two letter
   tokenizers, each applied to a text *)

AnalyzerLexemes == {"Great", "bad", "don't", "hey", "furthermore", SP, "!", "'", "10:00"}
\* n words of no style, each after a space.
Filler(n) == [i \in 1..(2 * n) |-> IF i % 2 = 1 THEN SP ELSE "bad"]
LongTexts ==
    {<<"Great", SP, "bad", SP, "Great">>, <<"bad", "!", "Great", SP, "bad">>,
     <<"hey", SP, "bad", SP, "bad">>, <<"furthermore", SP, "hey", SP, "don't", SP, "bad", SP, "bad">>,
     <<"hey">> \o Filler(9), <<"hey">> \o Filler(8),
     <<"furthermore", SP, "don't">> \o Filler(8), <<"furthermore", SP, "don't">> \o Filler(7)}
AnalyzerTexts == SeqsOf(AnalyzerLexemes, 0, MaxTextLen) \cup LongTexts

InitAnalyze ==
    /\ pc = "text"
    /\ \E txt \in AnalyzerTexts : arg = [text |-> txt]
    /\ idx = 0
    /\ ret = <<>>
    /\ RestInit

\* SentimentAnalyzer.analyze
SentimentAnalyze ==
    /\ pc = "text"
    /\ pc' = "sentiment"
    /\ ret' = sentiment_analyze(arg.text)
    /\ UNCHANGED <<arg, idx, pipelineVars, modelVars>>

\* StyleAnalyzer.analyze
StyleAnalyze ==
    /\ pc = "text"
    /\ pc' = "style"
    /\ ret' = style_analyze(arg.text)
    /\ UNCHANGED <<arg, idx, pipelineVars, modelVars>>

\* SpamDetector._tokenize
SpamTokenize ==
    /\ pc = "text"
    /\ pc' = "spam_tokens"
    /\ ret' = _tokenize(arg.text)
    /\ UNCHANGED <<arg, idx, pipelineVars, modelVars>>

\* SentimentAnalyzer._tokenize
SentimentTokenize ==
    /\ pc = "text"
    /\ pc' = "sentiment_tokens"
    /\ ret' = sentiment_tokenize(arg.text)
    /\ UNCHANGED <<arg, idx, pipelineVars, modelVars>>

NextAnalyze == SentimentAnalyze \/ StyleAnalyze \/ SpamTokenize \/ SentimentTokenize

SpecAnalyze == InitAnalyze /\ [][NextAnalyze]_vars

\* The lowercase words that the letters of the lexemes spell, and what they
\* spell when several of them stand side by side in a text.
SpelledWords == {"great", "bad", "don", "t", "hey", "furthermore"}
RECURSIVE WordRuns(_)
WordRuns(n) == IF n = 1 THEN SpelledWords
               ELSE WordRuns(n - 1) \cup {a \o b : a \in SpelledWords, b \in WordRuns(n - 1)}
LowercaseWords == WordRuns(MaxTextLen + 1)
\* The tokens of a text that are in a lexicon, counted with their repetitions.
Hits(txt, lexicon) == Cardinality({i \in 1..Len(sentiment_tokenize(txt)) : sentiment_tokenize(txt)[i] \in lexicon})

\* C16: the sentiment of a text is positive exactly when more of its tokens
\* are in the positive lexicon than in the negative lexicon, negative exactly
\* when more are in the negative lexicon, and neutral otherwise: equal counts,
\* no hit at all, an empty text or one of white space only.
C16_SentimentByMajorityOfHits ==
    pc = "sentiment" =>
        /\ ret = "positive" <=> Hits(arg.text, positive_words) > Hits(arg.text, negative_words)
        /\ ret = "negative" <=> Hits(arg.text, negative_words) > Hits(arg.text, positive_words)
        /\ ret = "neutral" <=> Hits(arg.text, negative_words) = Hits(arg.text, positive_words)
\* A text with as many positive as negative hits, and not none, found neutral.
C16_Witness ==
    /\ pc = "sentiment"
    /\ Hits(arg.text, positive_words) = Hits(arg.text, negative_words)
    /\ Hits(arg.text, positive_words) > 0
    /\ ret = "neutral"

\* C17: the style score of every text is within [0, 100] and its formality is
\* formal, informal or neutral; a text that is empty, of white space only or
\* without any token gets exactly the score 50.0 and the formality neutral.
NoStyleToken(txt) == \A i \in 1..Len(txt) : letters_and_apostrophes(txt[i]) = <<>>
C17_StyleScoreBoundedAndDefault ==
    pc = "style" =>
        /\ ret.StyleScore \in 0..10000
        /\ ret.Formality \in {"formal", "informal", "neutral"}
        /\ NoStyleToken(arg.text) => ret = [StyleScore |-> 5000, Formality |-> "neutral"]
\* A text of contractions only, scored at the lower bound, with the clamping
\* at work.
C17_Witness ==
    /\ pc = "style"
    /\ ~NoStyleToken(arg.text)
    /\ ret = [StyleScore |-> 0, Formality |-> "informal"]

\* "tok1 tok2 ...": the tokens joined by single spaces
SpaceJoined(tokens) == join([i \in 1..Len(tokens) |-> <<tokens[i]>>], <<SP>>)

\* C20: both letter tokenizers return lowercase, purely alphabetic tokens,
\* every other character being a boundary, and are idempotent: the tokens of
\* the space-joined tokens of a text are the tokens of the text.
C20_TokensLowercaseAlphabeticIdempotent ==
    /\ pc = "spam_tokens" =>
          /\ \A i \in 1..Len(ret) : ret[i] \in LowercaseWords
          /\ _tokenize(SpaceJoined(ret)) = ret
    /\ pc = "sentiment_tokens" =>
          /\ \A i \in 1..Len(ret) : ret[i] \in LowercaseWords
          /\ sentiment_tokenize(SpaceJoined(ret)) = ret
\* A text with a capital, an apostrophe and a digit lexeme, tokenized.
C20_Witness ==
    /\ pc = "spam_tokens"
    /\ arg.text = <<"Great", "don't", "10:00">>
    /\ ret = <<"greatdon", "t">>

-----------------------------------------------------------------------------
(* The message ids of the multi-email parser (SpecMulti) *)

EmailId(filename, k) == filename \o <<"_email_", str(k)>>

\* C21: the k-th record emitted by multi-email parsing has the message id
\* "<filename>_email_k" (an error record the same id with "_error" after
\* it), so the ids run 1, 2, ..., n without gaps whatever empty segments the
\* content contains.
C21_MessageIdsSequential ==
    InMulti =>
        \A k \in 1..Len(ret) :
            ret[k].MessageID = IF "Error" \in DOMAIN ret[k]
                               THEN EmailId(arg.filename, k) \o <<"_error">>
                               ELSE EmailId(arg.filename, k)

-----------------------------------------------------------------------------
(* Headers and body of a single e-mail block (SpecMulti) *)

\* The lines of a segment after its first blank line, none when it has no
\* blank line.
BodyRegion(segment) ==
    IF \A i \in 1..Len(splitlines(segment)) : strip(splitlines(segment)[i]) # <<>>
    THEN <<>>
    ELSE SubSeq(splitlines(segment),
                Min({i \in 1..Len(splitlines(segment)) : strip(splitlines(segment)[i]) = <<>>}) + 1,
                Len(splitlines(segment)))
HeadersAndBody(record, segment) ==
    /\ record.Message = strip(join(BodyRegion(segment), <<NL>>))
    /\ record.Sender = TextOf(HeaderOf(segment, "from", NoHeader), <<"Unknown">>)
    /\ record.Subject = TextOf(HeaderOf(segment, "subject", NoHeader), <<"No Subject">>)
    /\ record.ConversationID = TextOf(HeaderOf(segment, "conversation-id", NoHeader), <<"N/A">>)
    /\ HeaderOf(segment, "date", NoHeader) = NoHeader => record.Timestamp = None

\* C22: single-email parsing takes the lines before the first blank line as
\* headers and everything after it as the body, trimmed and joined by
\* newlines; the prefixes From:, Date:, Conversation-ID: and Subject: are
\* matched whatever their case, a header line of another prefix is ignored
\* and is no body text, each absent header takes its default (sender
\* "Unknown", conversation id "N/A", subject "No Subject", no time stamp),
\* and a content without a blank line has an empty body.
C22_HeadersBeforeBlankLineBodyAfter ==
    InMulti =>
        \A k \in 1..Len(ret) :
            "Error" \notin DOMAIN ret[k] =>
                /\ HeadersAndBody(ret[k], strip(SegmentsDone[k]))
                /\ (\A i \in 1..Len(splitlines(strip(SegmentsDone[k]))) :
                        strip(splitlines(strip(SegmentsDone[k]))[i]) # <<>>) => ret[k].Message = <<>>
\* C22 witness: three segments were parsed.  The first has an upper-case
\* DATE: header and a From: line after its blank line, which stays body text;
\* the second has a header line of an unknown prefix, which is dropped; the
\* third has no blank line and no header, so its body is empty and all its
\* headers are the defaults.
C22_Witness ==
    /\ pc = "multi_done"
    /\ Len(ret) = 3 /\ Len(MultiInputBlocks) = 3
    /\ MultiInputBlocks = <<PieceBadDate, PieceInvalidIso, PieceNoHeaders>>
    /\ ret[1].Timestamp = text(<<"tomorrow">>) /\ ret[1].Sender = <<"Unknown">>
    /\ ret[1].Message = <<"ok", NL, NL, "From", COLON, SP, "Mallory">>
    /\ ret[2].Message = <<"body">> /\ ret[2].Subject = <<"No Subject">>
    /\ ret[3].Message = <<>> /\ ret[3].ConversationID = <<"N/A">> /\ ret[3].Timestamp = None

-----------------------------------------------------------------------------
(* Error records in the two aggregators (SpecMetrics) *)

NoError(entry) == "Error" \notin DOMAIN entry
WithoutErrors(batch) == SelectSeq(batch, NoError)

\* C23: both aggregator functions ignore error records: each returns on a
\* batch what it returns on the batch without the records that carry an
\* Error field, and neither changes the batch or its records.
C23_ErrorRecordsIgnored ==
    /\ [](pc \in {"content_metrics_done", "metrics_done"} =>
            ret.content = calculate_content_metrics(WithoutErrors(arg.results)))
    /\ [](pc = "metrics_done" =>
            ret.behavior = calculate_engagement_metrics(WithoutErrors(arg.results)))
    /\ [][arg'.results = arg.results]_vars
\* C23 witness: an error record that carries a sender, a label of every
\* kind, a style score and a time stamp of conversation c1 stands between two
\* records of c1 that are 300 s apart: two messages are counted, the gap is
\* 300 s and the sender of the error record is not among the senders.
C23_Witness ==
    /\ pc = "metrics_done"
    /\ Len(arg.results) = 3
    /\ ~NoError(arg.results[2]) /\ NoError(arg.results[1]) /\ NoError(arg.results[3])
    /\ "Sender" \in DOMAIN arg.results[2] /\ "Timestamp" \in DOMAIN arg.results[2]
    /\ ret.content.TotalMessages = 2
    /\ ret.behavior.AverageResponseTime = float_of(30000)
    /\ arg.results[2].Sender \notin DOMAIN ret.behavior.TopSenders

-----------------------------------------------------------------------------
(* The tallies of the content metrics (SpecMetrics) *)

\* An enriched record: one with a spam label, a sentiment, a style score and
\* a formality (in any case of letters) of the closed sets; error records are
\* as they come.
Enriched(entry) ==
    \/ ~NoError(entry)
    \/ /\ {"Spam", "Sentiment", "StyleScore", "Formality"} \subseteq DOMAIN entry
       /\ entry.Spam \in {"SPAM", "HAM"}
       /\ entry.Sentiment \in {"positive", "negative", "neutral"}
       /\ lower(entry.Formality) \in {"formal", "informal", "neutral"}
EnrichedBatch(batch) == \A i \in 1..Len(batch) : Enriched(batch[i])

\* C24: for every batch of enriched records, Total Messages is the number of
\* non-error records; SPAM + HAM, the three sentiment tallies and the three
\* formality tallies each add up to Total Messages; and the formality tallies
\* of the engagement metrics are those of the content metrics.
C24_TalliesAddUpToTotal ==
    (pc = "metrics_done" /\ EnrichedBatch(arg.results)) =>
        /\ ret.content.TotalMessages = Cardinality({i \in 1..Len(arg.results) : NoError(arg.results[i])})
        /\ ret.content.SpamCounts.SPAM + ret.content.SpamCounts.HAM = ret.content.TotalMessages
        /\ ret.content.SentimentCounts.positive + ret.content.SentimentCounts.neutral
             + ret.content.SentimentCounts.negative = ret.content.TotalMessages
        /\ ret.content.FormalityCounts.formal + ret.content.FormalityCounts.informal
             + ret.content.FormalityCounts.neutral = ret.content.TotalMessages
        /\ ret.behavior.FormalityCounts = ret.content.FormalityCounts
\* C24 witness: a batch of an error record and two enriched records, one of
\* them with the formality spelled "Informal": two messages in total, one
\* spam and one ham, and one informal.
C24_Witness ==
    /\ pc = "metrics_done"
    /\ EnrichedBatch(arg.results)
    /\ Len(arg.results) = 3
    /\ \E i \in 1..3 : ~NoError(arg.results[i])
    /\ \E i \in 1..3 : NoError(arg.results[i]) /\ arg.results[i].Formality = "Informal"
    /\ ret.content.TotalMessages = 2
    /\ ret.content.SpamCounts = [SPAM |-> 1, HAM |-> 1]
    /\ ret.behavior.FormalityCounts.informal >= 1

-----------------------------------------------------------------------------
(* SpecTrain: SpamDetector._train called on an empty detector, one message
   per step; ret lists the messages trained so far with their class *)

TrainMessages ==
    {<<"free">>, <<"free", SP, "money">>, <<"hello", SP, "you">>,
     <<"free", SP, "hello", "!", SP, "free">>, <<"10:00">>}

InitTrain ==
    /\ pc = "train"
    /\ arg = <<>>
    /\ idx = 0
    /\ ret = <<>>
    /\ RestInit

\* self._train(message, False)
TrainHam ==
    /\ pc = "train"
    /\ Len(ret) < MaxTrained
    /\ \E message \in TrainMessages :
          /\ SelfBecomes(_train(Self, message, FALSE))
          /\ ret' = Append(ret, [message |-> message, is_spam |-> FALSE])
    /\ UNCHANGED <<pc, arg, idx, pipelineVars>>

\* self._train(message, True)
TrainSpam ==
    /\ pc = "train"
    /\ Len(ret) < MaxTrained
    /\ \E message \in TrainMessages :
          /\ SelfBecomes(_train(Self, message, TRUE))
          /\ ret' = Append(ret, [message |-> message, is_spam |-> TRUE])
    /\ UNCHANGED <<pc, arg, idx, pipelineVars>>

NextTrain == TrainHam \/ TrainSpam

SpecTrain == InitTrain /\ [][NextTrain]_vars

\* The number of tokens of the messages of one class among those trained.
RECURSIVE TokenTotal(_, _)
TokenTotal(trained, is_spam) ==
    IF trained = <<>> THEN 0
    ELSE TokenTotal(Tail(trained), is_spam)
         + (IF Head(trained).is_spam = is_spam THEN Len(_tokenize(Head(trained).message)) ELSE 0)
Counted(counts) == {w \in DOMAIN counts : counts[w] > 0}

\* C25: after any sequence of training steps from the empty model, the two
\* message counts add up to the number of messages trained, the word counts
\* of each class add up to the number of tokens of its messages, the
\* vocabulary is the set of words with a positive count in either class, and
\* training a message of one class changes no count of the other class.
C25_TrainingCountsConsistent ==
    /\ [](pc = "train" =>
            /\ ham_messages_count + spam_messages_count = Len(ret)
            /\ sum_values(ham_words) = TokenTotal(ret, FALSE)
            /\ sum_values(spam_words) = TokenTotal(ret, TRUE)
            /\ all_words = Counted(ham_words) \cup Counted(spam_words))
    /\ [][(pc = "train" /\ Len(ret') = Len(ret) + 1) =>
            IF ret'[Len(ret')].is_spam
            THEN UNCHANGED <<ham_words, ham_messages_count>>
            ELSE UNCHANGED <<spam_words, spam_messages_count>>]_vars
\* C25 witness: a ham message with a repeated word, a spam message and a
\* message without a token were trained: three messages are counted, "free"
\* was counted twice as ham and once as spam.
C25_Witness ==
    /\ pc = "train"
    /\ Len(ret) = 3
    /\ ret[1] = [message |-> <<"free", SP, "hello", "!", SP, "free">>, is_spam |-> FALSE]
    /\ ret[2] = [message |-> <<"free", SP, "money">>, is_spam |-> TRUE]
    /\ ret[3].message = <<"10:00">>
    /\ ham_words = ("free" :> 2) @@ ("hello" :> 1)
    /\ spam_words = ("free" :> 1) @@ ("money" :> 1)
    /\ ham_messages_count + spam_messages_count = 3
    /\ all_words = {"free", "hello", "money"}

-----------------------------------------------------------------------------
(* The formality label and the style score (SpecAnalyze) *)

StyleHits(txt, lexicon) ==
    Cardinality({i \in 1..Len(style_tokenize(txt)) : style_tokenize(txt)[i] \in lexicon})
\* Twice the numerator of the signal: 8 * formal - 3 * informal - 6 * contractions;
\* the signal is this number over twice the number of tokens.
TwiceSignal(txt) ==
    8 * StyleHits(txt, formal_keywords) - 3 * StyleHits(txt, informal_keywords)
    - 6 * StyleHits(txt, contractions)
TokenCount(txt) == Len(style_tokenize(txt))
\* signal > 0.10 and signal < -0.15, for a text with a token
AboveFormal(txt) == TokenCount(txt) > 0 /\ 10 * TwiceSignal(txt) > 2 * TokenCount(txt)
BelowInformal(txt) == TokenCount(txt) > 0 /\ 100 * TwiceSignal(txt) < -30 * TokenCount(txt)

\* C26: the formality is "formal" iff the signal
\* (4 * formal hits - 1.5 * informal hits - 3 * contraction hits) / tokens is
\* above 0.10, "informal" iff it is below -0.15 and "neutral" otherwise; a
\* result labelled informal has a style score of at most 40, one labelled
\* formal a score of at least 50, and a text without an informal keyword and
\* without a contraction is never labelled informal and scores at least 50.
C26_LabelBySignalScoreConsistent ==
    pc = "style" =>
        /\ ret.Formality = "formal" <=> AboveFormal(arg.text)
        /\ ret.Formality = "informal" <=> BelowInformal(arg.text)
        /\ ret.Formality = "neutral" <=> (~AboveFormal(arg.text) /\ ~BelowInformal(arg.text))
        /\ ret.Formality = "informal" => ret.StyleScore <= 4000
        /\ ret.Formality = "formal" => ret.StyleScore >= 5000
        /\ (StyleHits(arg.text, informal_keywords) = 0 /\ StyleHits(arg.text, contractions) = 0)
              => (ret.Formality # "informal" /\ ret.StyleScore >= 5000)
\* C26 witness: one informal keyword among ten tokens, a signal of exactly
\* -0.15: the label is neutral, not informal, and the score is 39.29.
C26_Witness ==
    /\ pc = "style"
    /\ TokenCount(arg.text) = 10
    /\ 100 * TwiceSignal(arg.text) = -30 * TokenCount(arg.text)
    /\ ret = [StyleScore |-> 3929, Formality |-> "neutral"]

-----------------------------------------------------------------------------
(* The order of the records of a batch (SpecMetrics) *)

Orders(n) == {p \in [1..n -> 1..n] : \A i, j \in 1..n : p[i] = p[j] => i = j}
Reordered(batch, p) == [i \in 1..Len(batch) |-> batch[p[i]]]

\* C27: calculate_engagement_metrics does not depend on the order of the
\* batch: for every batch and every permutation of its records, the average
\* response gap, the per-sender counts and the suggestions are the same.
C27_EngagementIndependentOfOrder ==
    pc = "metrics_done" =>
        \A p \in Orders(Len(arg.results)) :
            /\ calculate_engagement_metrics(Reordered(arg.results, p)).AverageResponseTime
                 = ret.behavior.AverageResponseTime
            /\ calculate_engagement_metrics(Reordered(arg.results, p)).TopSenders
                 = ret.behavior.TopSenders
            /\ calculate_engagement_metrics(Reordered(arg.results, p)).Suggestions
                 = ret.behavior.Suggestions

-----------------------------------------------------------------------------
(* C28: time stamps that reach the aggregator as text *)

\* A time stamp in text that neither "%Y-%m-%d %H:%M:%S" nor a chat pattern reads.
UnreadText(entry) ==
    /\ "Timestamp" \in DOMAIN entry
    /\ entry.Timestamp.kind = "str"
    /\ entry.Timestamp.s # <<>>
    /\ time_obj(entry.Timestamp).kind # "datetime"
WithoutUnreadText(batch) ==
    [i \in 1..Len(batch) |->
        IF UnreadText(batch[i]) THEN [batch[i] EXCEPT !.Timestamp = None] ELSE batch[i]]

\* C28 as claimed: for every batch, the engagement metrics computed after the
\* report functions rendered each parsed time stamp as "YYYY-MM-DD HH:MM:SS"
\* text equal the metrics computed from the structured time stamps; and a
\* text time stamp that matches no pattern is treated as no time stamp: the
\* metrics are those of the batch in which that record has no time stamp (it
\* contributes no gap and is still counted for sender, style and formality),
\* and aggregation is never aborted.
C28_TextTimestampsEquivalent ==
    pc = "metrics_done" =>
        /\ calculate_engagement_metrics(timestamps_to_text(arg.results)) = ret.behavior
        /\ calculate_engagement_metrics(WithoutUnreadText(arg.results)) = ret.behavior
        /\ "Suggestions" \in DOMAIN ret.behavior
\* C28, second half alone: a text time stamp no pattern reads counts as no
\* time stamp and never aborts aggregation.
C28_UnreadTextIsNoTimestamp ==
    pc = "metrics_done" =>
        /\ calculate_engagement_metrics(WithoutUnreadText(arg.results)) = ret.behavior
        /\ "Suggestions" \in DOMAIN ret.behavior
\* C28, first half on batches without a year before 1000.
C28_EquivalentFromYear1000 ==
    (pc = "metrics_done"
     /\ \A i \in 1..Len(arg.results) :
           ("Timestamp" \in DOMAIN arg.results[i] /\ arg.results[i].Timestamp.kind = "datetime")
               => arg.results[i].Timestamp.year >= 1000)
        => calculate_engagement_metrics(timestamps_to_text(arg.results)) = ret.behavior

-----------------------------------------------------------------------------
(* SpecCli: main() of main.py, one step for every input() it reads.  pc is the
   prompt main() waits at, arg holds its local variables, and ret is the
   report function the last step called with its arguments (what a mock of
   the function records), NoCall if the step called none. *)

\* s.lower() of a text
lower_text(s) == [i \in 1..Len(s) |-> lower(s[i])]

\* What the user types at each prompt.
MainInputs == {<<"1">>, <<"2">>, <<"3">>, <<"4">>, <<SP, "4", SP>>, <<"9">>, <<>>}
FileInputs == {<<"0">>, <<"1">>, <<"2">>, <<"3">>, <<"/tmp">>, <<"notes.txt">>, <<"missing.txt">>, <<>>}
PathInputs == {<<"/tmp">>, <<"notes.txt">>, <<"missing.txt">>, <<SP>>}
TypeInputs == {<<"1">>, <<"2">>, <<"3">>, <<"4">>, <<"5">>, <<"6">>, <<SP, "1">>, <<>>}
SenderInputs == {<<>>, <<"Alice">>, <<"Back">>, <<"back", SP>>}
ConvoInputs == {<<>>, <<"c1">>, <<"BACK">>}
TypedLines == {<<>>, <<SP>>, <<"cancel">>, <<SP, "Cancel">>, <<"hello">>, <<"cancel", SP, "it">>}
AnotherInputs == {<<"y">>, <<"Y", SP>>, <<"n">>, <<>>}

\* int(s) of main.py line 85
int(s) ==
    CASE s = <<"0">> -> Parsed(0)
      [] s = <<"1">> -> Parsed(1)
      [] s = <<"2">> -> Parsed(2)
      [] s = <<"3">> -> Parsed(3)
      [] OTHER -> ValueError

\* The file system: a text file, something open() or read() fails on (a
\* directory, a file that is no UTF-8 text), or nothing at all.
SAMPLE_DIRECTORY == <<"data/sample_emails/">>
PathKind(path) ==
    CASE path \in {<<"notes.txt">>, SAMPLE_DIRECTORY \o <<"a.txt">>} -> "text"
      [] path \in {<<"/tmp">>, SAMPLE_DIRECTORY \o <<"scan.pdf">>} -> "unreadable"
      [] OTHER -> "missing"
\* os.path.exists(path)
exists(path) == PathKind(path) # "missing"
\* What os.listdir(directory) may answer; found is FALSE for FileNotFoundError.
SampleListings ==
    {[found |-> FALSE], [found |-> TRUE, files |-> <<>>],
     [found |-> TRUE, files |-> <<<<"a.txt">>, <<"scan.pdf">>>>]}
\* main.py lines 25-47: the (display name, path) pairs, [] when there are none
list_sample_files(listing) ==
    IF ~listing.found THEN <<>>
    ELSE [i \in 1..Len(listing.files) |-> <<listing.files[i], SAMPLE_DIRECTORY \o listing.files[i]>>]

NoCall == [fn |-> "none"]
\* How a report function called on a file ends: generate_custom_test_report
\* returns after a text file, and raises UnboundLocalError from its except
\* clause when the file cannot be read (report_generator.py lines 408-410, 451-457).
custom_test_report_ends(file_path) ==
    IF PathKind(file_path) = "text" THEN "returned" ELSE "raised"
\* main.py lines 97-106: what becomes of the selected path
file_selected(selected_file_path) ==
    IF selected_file_path = <<>> \/ ~exists(selected_file_path)
    THEN [pc |-> "main_menu", ret |-> NoCall]
    ELSE [pc |-> IF custom_test_report_ends(selected_file_path) = "raised" THEN "raised" ELSE "main_menu",
          ret |-> [fn |-> "generate_custom_test_report", file_path |-> selected_file_path]]

\* main.py lines 122-133
message_type_of(type_choice) ==
    CASE type_choice = <<"1">> -> "WhatsApp"
      [] type_choice = <<"2">> -> "Email"
      [] type_choice = <<"3">> -> "SMS"
      [] OTHER -> "Other"

main_locals ==
    [choice |-> <<>>, available_files |-> <<>>, type_choice |-> <<>>, message_type |-> "Other",
     sender_input |-> <<>>, convo_id_input |-> <<>>, lines |-> <<>>, line |-> <<>>]

InitCli ==
    /\ pc = "main_menu"
    /\ arg = main_locals
    /\ idx = 0
    /\ ret = NoCall
    /\ RestInit

\* main.py lines 65-77, 118, 175-180: the main menu.  generate_report returns,
\* or raises as generate_custom_test_report does when the first file of the
\* data set cannot be read.
MainMenu ==
    /\ pc = "main_menu"
    /\ \E typed \in MainInputs, listing \in SampleListings, ends \in {"returned", "raised"} :
          /\ arg' = [arg EXCEPT !.choice = strip(typed),
                                !.available_files =
                                    IF strip(typed) = <<"2">> THEN list_sample_files(listing) ELSE @]
          /\ ret' = IF strip(typed) = <<"1">>
                    THEN [fn |-> "generate_report", source |-> "sample_emails"]
                    ELSE NoCall
          /\ pc' = CASE strip(typed) = <<"1">> -> (IF ends = "raised" THEN "raised" ELSE "main_menu")
                     [] strip(typed) = <<"2">> ->
                            (IF list_sample_files(listing) = <<>> THEN "main_menu" ELSE "file_selection")
                     [] strip(typed) = <<"3">> -> "type_menu"
                     [] strip(typed) = <<"4">> -> "exited"
                     [] OTHER -> "main_menu"
    /\ UNCHANGED <<idx, pipelineVars, modelVars>>

\* main.py lines 81-106: the number of a listed file, 0, or a path
FileSelection ==
    /\ pc = "file_selection"
    /\ \E typed \in FileInputs :
          IF int(strip(typed)).ok /\ int(strip(typed)).v = 0
          THEN pc' = "custom_path" /\ ret' = NoCall
          ELSE IF int(strip(typed)).ok /\ ~(int(strip(typed)).v \in 1..Len(arg.available_files))
          THEN pc' = "main_menu" /\ ret' = NoCall
          ELSE /\ pc' = file_selected(IF int(strip(typed)).ok
                                      THEN arg.available_files[int(strip(typed)).v][2]
                                      ELSE strip(typed)).pc
               /\ ret' = file_selected(IF int(strip(typed)).ok
                                       THEN arg.available_files[int(strip(typed)).v][2]
                                       ELSE strip(typed)).ret
    /\ UNCHANGED <<arg, idx, pipelineVars, modelVars>>

\* main.py lines 88, 97-106: the path typed after 0
CustomPath ==
    /\ pc = "custom_path"
    /\ \E typed \in PathInputs :
          /\ pc' = file_selected(strip(typed)).pc
          /\ ret' = file_selected(strip(typed)).ret
    /\ UNCHANGED <<arg, idx, pipelineVars, modelVars>>

\* main.py lines 119-137: the message-type menu
TypeMenu ==
    /\ pc = "type_menu"
    /\ \E typed \in TypeInputs :
          /\ arg' = [arg EXCEPT !.type_choice = strip(typed),
                                !.message_type = message_type_of(strip(typed))]
          /\ pc' = IF strip(typed) \in {<<"1">>, <<"2">>, <<"3">>, <<"4">>} THEN "sender"
                   ELSE IF strip(typed) = <<"5">> THEN "main_menu"
                   ELSE "type_menu"
    /\ ret' = NoCall
    /\ UNCHANGED <<idx, pipelineVars, modelVars>>

\* main.py lines 141-145: the sender prompt
SenderPrompt ==
    /\ pc = "sender"
    /\ \E typed \in SenderInputs :
          /\ arg' = [arg EXCEPT !.sender_input = strip(typed)]
          /\ pc' = IF lower_text(strip(typed)) = <<"back">> THEN "type_menu" ELSE "convo_id"
    /\ ret' = NoCall
    /\ UNCHANGED <<idx, pipelineVars, modelVars>>

\* main.py lines 147-156: the conversation-id prompt; lines = [] before the
\* first line is read
ConvoPrompt ==
    /\ pc = "convo_id"
    /\ \E typed \in ConvoInputs :
          /\ arg' = [arg EXCEPT !.convo_id_input = strip(typed),
                                !.lines = IF lower_text(strip(typed)) = <<"back">> THEN @ ELSE <<>>]
          /\ pc' = IF lower_text(strip(typed)) = <<"back">> THEN "type_menu" ELSE "message"
    /\ ret' = NoCall
    /\ UNCHANGED <<idx, pipelineVars, modelVars>>

\* main.py lines 157-172: one line of the message; after the line that ends
\* the entry, the test of user_input and the call of the report function
MessageLine ==
    /\ pc = "message"
    /\ \E line \in TypedLines :
          IF lower_text(strip(line)) = <<"cancel">>
          THEN /\ arg' = [arg EXCEPT !.line = line, !.lines = <<>>]
               /\ pc' = "type_menu"
               /\ ret' = NoCall
          ELSE IF strip(line) = <<>>
          THEN /\ arg' = [arg EXCEPT !.line = line]
               /\ IF strip(join(arg.lines, <<NL>>)) = <<>>
                  THEN pc' = "type_menu" /\ ret' = NoCall
                  ELSE /\ pc' = "another"
                       /\ ret' = [fn |-> "generate_report_from_custom_input",
                                  message |-> strip(join(arg.lines, <<NL>>)),
                                  sender |-> IF arg.sender_input # <<>>
                                             THEN text(arg.sender_input) ELSE None,
                                  conversation_id |-> IF arg.convo_id_input # <<>>
                                                      THEN text(arg.convo_id_input) ELSE None,
                                  message_type |-> arg.message_type]
          ELSE /\ Len(arg.lines) < MaxTyped
               /\ arg' = [arg EXCEPT !.line = line, !.lines = Append(@, line)]
               /\ pc' = "message"
               /\ ret' = NoCall
    /\ UNCHANGED <<idx, pipelineVars, modelVars>>

\* main.py lines 171-173: another message, or back to the main menu
AnotherPrompt ==
    /\ pc = "another"
    /\ \E typed \in AnotherInputs :
          pc' = IF lower_text(strip(typed)) = <<"y">> THEN "type_menu" ELSE "main_menu"
    /\ ret' = NoCall
    /\ UNCHANGED <<arg, idx, pipelineVars, modelVars>>

NextCli ==
    MainMenu \/ FileSelection \/ CustomPath \/ TypeMenu \/ SenderPrompt \/ ConvoPrompt
        \/ MessageLine \/ AnotherPrompt

SpecCli == InitCli /\ [][NextCli]_vars

-----------------------------------------------------------------------------
(* C29: the custom-message flow of the command line *)

CustomCalled == ret.fn = "generate_report_from_custom_input"
TypeChosen == arg.type_choice \in {<<"1">>, <<"2">>, <<"3">>, <<"4">>}

\* The custom-message flow: generate_report_from_custom_input is called only
\* by the step that reads the empty line ending a message that is not empty,
\* after a type 1-4 was chosen; 'back' at the sender or the conversation-id
\* prompt, 'cancel' among the message lines (whatever was typed before) and
\* an entry finished without text lead to the message-type menu without a
\* call; type choice 5 leads to the main menu and any other choice that is
\* not 1-4 shows the message-type menu again.
CustomFlow ==
    /\ [](CustomCalled =>
            /\ pc = "another"
            /\ TypeChosen
            /\ arg.lines # <<>>
            /\ strip(arg.line) = <<>>
            /\ ret.message = strip(join(arg.lines, <<NL>>))
            /\ ret.message # <<>>)
    /\ [][(pc = "sender" /\ lower_text(arg'.sender_input) = <<"back">>)
             => (pc' = "type_menu" /\ ret' = NoCall)]_vars
    /\ [][(pc = "convo_id" /\ lower_text(arg'.convo_id_input) = <<"back">>)
             => (pc' = "type_menu" /\ ret' = NoCall)]_vars
    /\ [][(pc = "message" /\ lower_text(strip(arg'.line)) = <<"cancel">>)
             => (pc' = "type_menu" /\ ret' = NoCall)]_vars
    /\ [][(pc = "message" /\ strip(arg'.line) = <<>> /\ arg.lines = <<>>)
             => (pc' = "type_menu" /\ ret' = NoCall)]_vars
    /\ [][(pc = "type_menu" /\ arg'.type_choice = <<"5">>) => pc' = "main_menu"]_vars
    /\ [][(pc = "type_menu" /\ arg'.type_choice \notin {<<"1">>, <<"2">>, <<"3">>, <<"4">>, <<"5">>})
             => pc' = "type_menu"]_vars

\* C29 as claimed: in the custom-message flow, for every sequence of user
\* inputs, generate_report_from_custom_input is invoked only after a message
\* type 1-4 was chosen and a non-empty message was completed with an empty
\* line; 'back' at the sender or conversation-id prompt, 'cancel' during
\* message entry or finishing with no text returns to message-type selection
\* without invoking it; type choice 5 returns to the main menu, an invalid
\* choice re-displays the same menu; and the main loop terminates only when
\* '4' is chosen at the main menu.
C29_CustomFlowAndExitOnlyAtFour ==
    /\ CustomFlow
    /\ [][(pc = "main_menu" /\ pc' # "main_menu")
             => (arg'.choice \in {<<"2">>, <<"3">>} \/ (arg'.choice = <<"4">> /\ pc' = "exited"))]_vars
    /\ [](pc \notin {"main_menu", "file_selection", "custom_path", "type_menu", "sender",
                      "convo_id", "message", "another"}
             => (pc = "exited" /\ arg.choice = <<"4">>))
\* C29 without its last clause: the custom-message flow alone, and the loop is
\* left by its break only when '4' was chosen.
C29_CustomFlowHolds ==
    /\ CustomFlow
    /\ [](pc = "exited" => arg.choice = <<"4">>)

-----------------------------------------------------------------------------
(* C30: a typed message of type WhatsApp *)

\* part stands somewhere in s
Infix(part, s) ==
    \E i \in 0..(Len(s) - Len(part)) : SubSeq(s, i + 1, i + Len(part)) = part
\* What a typed line says: the message text of a chat line, the line itself otherwise.
TypedText(line) ==
    IF whatsapp_line_pattern(line).matched
    THEN strip(whatsapp_line_pattern(line).message_text)
    ELSE strip(line)
TypedWhatsApp == pc = "input_done" /\ arg.message_type = "WhatsApp"

\* C30 as claimed: for a typed custom message of type WhatsApp the text
\* analysed and stored as the record's Message contains every non-empty line
\* the user typed (chat prefixes aside), whether it has one line or several and
\* whether or not its first line matches the chat pattern, and a non-empty
\* sender or conversation id supplied by the user is the sender or the
\* conversation id of the analysed record.
C30_TypedWhatsAppKeptAndMetadataHonoured ==
    TypedWhatsApp =>
        /\ \A i \in 1..Len(splitlines(arg.message)) :
              /\ Infix(TypedText(splitlines(arg.message)[i]), results[1].Message)
              /\ Infix(TypedText(splitlines(arg.message)[i]), calls[1].Message)
        /\ arg.sender.kind = "str" => results[1].Sender = arg.sender.s
        /\ arg.conversation_id.kind = "str" => results[1].ConversationID = arg.conversation_id.s
TYPED_FILE_NAME == <<"typed_whatsapp_msg", ".", "txt">>
\* C30 when the chat parser returns no record (a single line that matches no
\* chat pattern): the whole text is the Message and the supplied sender and
\* conversation id are used.
C30_UnparsedTextKeptAsTyped ==
    (TypedWhatsApp /\ _parse_whatsapp_content(arg.message, TYPED_FILE_NAME) = <<>>) =>
        /\ results[1].Message = arg.message
        /\ arg.sender.kind = "str" => results[1].Sender = arg.sender.s
        /\ arg.conversation_id.kind = "str" => results[1].ConversationID = arg.conversation_id.s
\* C30 when the chat parser returns records: the analysed record is the first
\* of them alone, with its sender and the conversation id of the parser,
\* whatever the user supplied.
C30_ParsedTextIsFirstChatRecord ==
    (TypedWhatsApp /\ _parse_whatsapp_content(arg.message, TYPED_FILE_NAME) # <<>>) =>
        /\ results[1].Message = _parse_whatsapp_content(arg.message, TYPED_FILE_NAME)[1].Message
        /\ results[1].Sender = _parse_whatsapp_content(arg.message, TYPED_FILE_NAME)[1].Sender
        /\ results[1].ConversationID = whatsapp_conversation_id(TYPED_FILE_NAME)

====
